---- MODULE Spec2Model ----
(***************************************************************************)
(* A model of the REACT planning orchestrator of htown_mania:               *)
(*   app/adapters/agents/planning_agent.py   PlanningAgent.run_workflow    *)
(*   app/adapters/agents/search_agents.py    run_search_agents_parallel    *)
(*   app/adapters/agents/review_agents.py    run_review_swarm              *)
(*   app/core/domain/agent_models.py         AgentPhase, PlanningState     *)
(*                                                                         *)
(* Optional values are sequences: None is <<>>, a present value x is <<x>>.*)
(* Floats are exact rationals <<numerator, denominator>> in lowest terms.  *)
(* Formatted strings are tuples <<template, argument, ...>>.               *)
(***************************************************************************)
EXTENDS Integers, Sequences, FiniteSets, TLC

VARIABLES
    state,              \* the PlanningState object run_workflow works on
    clock,              \* datetime.now(): one tick per reading
    pc,                 \* "loop" while run_workflow runs, "returned" after it
    iteration,          \* run_workflow's local loop counter
    raised,             \* the fault the except clause caught, None if none
    handlers_entered,   \* names of the phase handlers invoked so far
    handler_calls,      \* number of phase handler invocations so far
    search_results,     \* what run_search_agents_parallel returned, None before
    review_results,     \* what gather returned for each event's review agents
    review_calls,       \* number of review_event calls made on review agents
    promo_calls,        \* number of generate_promo calls made on the promo agent
    research_configured,\* PlanningAgent.research_enabled (all four agents given)
    enable_research,    \* the caller's enable_research argument
    swarm_event,        \* SwarmSpec: the event under review
    swarm_results,      \* SwarmSpec: what gather returned for its agents
    swarm_out,          \* SwarmSpec: the EnrichedEvent built, None before
    fan                 \* the fan-out specifications: the batch of concurrent tasks

vars == <<state, clock, pc, iteration, raised, handlers_entered, handler_calls,
          search_results, review_results, review_calls, promo_calls,
          research_configured, enable_research, swarm_event, swarm_results, swarm_out, fan>>

-----------------------------------------------------------------------------
(* Bounds of the model. *)

\* longest event list one search agent returns
MaxEventsPerAgent == 1

\* largest number of review agents handed to one swarm call in SwarmSpec
MaxSwarmAgents == 3

-----------------------------------------------------------------------------
(* Values *)

None == <<>>

Some(x) == <<x>>

RECURSIVE GCD(_, _)
GCD(a, b) == IF b = 0 THEN a ELSE GCD(b, a % b)

\* the rational n/d (d > 0) in lowest terms
Rat(n, d) == LET g == GCD(n, d) IN IF g = 0 THEN <<0, 1>> ELSE <<n \div g, d \div g>>

RatAdd(a, b) == Rat(a[1] * b[2] + b[1] * a[2], a[2] * b[2])

RatDiv(a, k) == Rat(a[1], a[2] * k)

RatGT(a, b) == a[1] * b[2] > b[1] * a[2]

RECURSIVE RatSum(_)
RatSum(s) == IF s = <<>> THEN Rat(0, 1) ELSE RatAdd(Head(s), RatSum(Tail(s)))

Last(s) == s[Len(s)]

RECURSIVE SeqsUpTo(_, _)
\* all sequences over S of length at most n
SeqsUpTo(S, n) ==
    IF n = 0 THEN {<<>>}
    ELSE LET shorter == SeqsUpTo(S, n - 1)
         IN shorter \cup {Append(s, x) : s \in {t \in shorter : Len(t) = n - 1}, x \in S}

-----------------------------------------------------------------------------
(* AgentPhase (agent_models.py:13-20): the enum has six members; there is  *)
(* no RESEARCHING member.                                                  *)

INITIALIZING == "initializing"
SEARCHING == "searching"
REVIEWING == "reviewing"
SYNTHESIZING == "synthesizing"
COMPLETE == "complete"
FAILED == "failed"

AgentPhase == {INITIALIZING, SEARCHING, REVIEWING, SYNTHESIZING, COMPLETE, FAILED}

\* str(e) of the AttributeError raised by evaluating AgentPhase.RESEARCHING
\* (the wording is the interpreter's; only its being the fault's text matters)
ErrNoResearchingPhase == "type object 'AgentPhase' has no attribute 'RESEARCHING'"

\* str(e) of the AttributeError raised by reading state.research_enabled
ErrNoResearchEnabledField == "'PlanningState' object has no attribute 'research_enabled'"

-----------------------------------------------------------------------------
(* str.lower() on titles. A title is a sequence of characters. *)

LowerChar(c) ==
    CASE c = "J" -> "j"
      [] c = "N" -> "n"
      [] c = "R" -> "r"
      [] OTHER -> c

Lower(title) == [i \in 1..Len(title) |-> LowerChar(title[i])]

-----------------------------------------------------------------------------
(* Event (models.py:5-14) and the events the search agents may return. *)

Event(title, description, url, location, start_time, source) ==
    [title |-> title, description |-> description, url |-> url,
     location |-> location, start_time |-> start_time, source |-> source]

EventPool ==
    { Event(<<"J", "n">>, Some("Jazz Night at the park"), Some("https://a/jn"),
            Some("Park"), Some("fri"), Some("SerpAPI")),
      Event(<<"j", "n">>, None, None, None, None, Some("Ticketmaster")),
      Event(<<"J", "N">>, Some("JAZZ"), None, Some("Hall"), Some("sat"), None),
      Event(<<"r">>, Some("Rodeo"), None, Some("NRG"), Some("sun"), Some("Meetup")) }

-----------------------------------------------------------------------------
(* Observation, Question, PlanningState (agent_models.py:23-111). *)

Observation(timestamp, agent, thought, action, result, confidence) ==
    [timestamp |-> timestamp, agent |-> agent, thought |-> thought,
     action |-> action, result |-> result, confidence |-> confidence]

Question(text, priority) ==
    [text |-> text, priority |-> priority, answered |-> FALSE, answer |-> None]

\* PlanningState(phase=INITIALIZING) created at time t. The caller's keyword
\* research_enabled is not a field of the model and is dropped by pydantic.
PlanningState(t) ==
    [phase |-> INITIALIZING, scratchpad |-> <<>>, events_found |-> <<>>,
     search_sources_completed |-> <<>>, events_reviewed |-> <<>>,
     urls_to_check |-> <<>>, questions_to_investigate |-> <<>>,
     promo_generated |-> None, started_at |-> t, completed_at |-> None,
     error_message |-> None]

(* The handlers mutate one PlanningState object and read the clock; they   *)
(* are operators on a context c = [st |-> PlanningState, clk |-> time].    *)

\* a scratchpad that keeps the newest observation first
add_observation_newest_first(c, agent, thought, action, result, confidence) ==
    [st |-> [c.st EXCEPT !.scratchpad =
                <<Observation(c.clk, agent, thought, action, result, confidence)>> \o @],
     clk |-> c.clk + 1]

add_observation(c, agent, thought, action, result, confidence) ==
    [st |-> [c.st EXCEPT !.scratchpad =
                Append(@, Observation(c.clk, agent, thought, action, result, confidence))],
     clk |-> c.clk + 1]

\* mark_complete that forgets the completion time
mark_complete_no_timestamp(c) == [c EXCEPT !.st.phase = COMPLETE]

mark_complete(c) ==
    [st |-> [c.st EXCEPT !.phase = COMPLETE, !.completed_at = Some(c.clk)],
     clk |-> c.clk + 1]

\* mark_failed that forgets to set the phase
mark_failed_keeps_phase(c, error) ==
    [st |-> [c.st EXCEPT !.completed_at = Some(c.clk), !.error_message = Some(error)],
     clk |-> c.clk + 1]

mark_failed(c, error) ==
    [st |-> [c.st EXCEPT !.phase = FAILED, !.completed_at = Some(c.clk),
                         !.error_message = Some(error)],
     clk |-> c.clk + 1]

\* a handler's outcome: the context it leaves and the fault it raised, if any
Returned(c) == [c |-> c, exc |-> None]

Raised(c, message) == [c |-> c, exc |-> Some(message)]

-----------------------------------------------------------------------------
(* _initialize_phase (planning_agent.py:178-188) *)

\* an initialize handler that logs and stays in its phase
_initialize_phase_stays(c) ==
    Returned(add_observation(c, <<"PlanningAgent">>, <<"Starting workflow.">>,
                             Some("transition_to_search"),
                             Some(<<"Moving to SEARCHING phase">>), Rat(1, 1)))

\* an initialize handler that moves on without logging
_initialize_phase_silent(c) == Returned([c EXCEPT !.st.phase = SEARCHING])

_initialize_phase(c) ==
    LET c1 == add_observation(c, <<"PlanningAgent">>, <<"Starting workflow.">>,
                              Some("transition_to_search"),
                              Some(<<"Moving to SEARCHING phase">>), Rat(1, 1))
    IN Returned([c1 EXCEPT !.st.phase = SEARCHING])

-----------------------------------------------------------------------------
(* Search fan-out: run_search_agents_parallel (search_agents.py:464-492).  *)

\* PlanningAgent.search_agents, by agent name (di.py wires these sources)
search_agents == <<"SerpAPI (Google Events)", "Ticketmaster">>

SearchAgentResult(agent_name, events, success, error_message, confidence) ==
    [agent_name |-> agent_name, events |-> events, success |-> success,
     error_message |-> error_message, confidence |-> confidence]

\* What asyncio.gather(..., return_exceptions=True) may hold for the agent
\* called name: an exception, a failed result, or a successful result.
GatherException(message) == [kind |-> "exception", message |-> message]

GatherValue(value) == [kind |-> "value", value |-> value]

SearchOutcomes(name) ==
    {GatherException("search timed out")}
    \cup {GatherValue(SearchAgentResult(name, <<>>, FALSE,
                                        Some("No API key configured"), Rat(0, 1)))}
    \cup {GatherValue(SearchAgentResult(name, evs, TRUE, None, Rat(9, 10))) :
            evs \in SeqsUpTo(EventPool, MaxEventsPerAgent)}

\* f"Agent_{i}" for the 0-based index of the agent at position i
AgentIndexName(i) ==
    CASE i = 1 -> "Agent_0"
      [] i = 2 -> "Agent_1"
      [] i = 3 -> "Agent_2"
      [] i = 4 -> "Agent_3"
      [] OTHER -> "Agent_n"

\* lines 477-492: exceptions become failed results, position by position
run_search_agents_parallel(gathered) ==
    [i \in 1..Len(gathered) |->
        IF gathered[i].kind = "exception"
        THEN SearchAgentResult(AgentIndexName(i), <<>>, FALSE,
                               Some(gathered[i].message), Rat(0, 1))
        ELSE gathered[i].value]

-----------------------------------------------------------------------------
(* _search_phase (planning_agent.py:190-268) *)

RECURSIVE ProcessSearchResults(_, _, _)
\* lines 203-223: merge the successful results' events, log every result
ProcessSearchResults(c, results, all_events) ==
    IF results = <<>> THEN [c |-> c, all_events |-> all_events]
    ELSE LET result == Head(results)
         IN IF result.success
            THEN ProcessSearchResults(
                    add_observation(
                        [c EXCEPT !.st.search_sources_completed =
                            Append(@, result.agent_name)],
                        <<"SearchAgent:", result.agent_name>>,
                        <<"Searching API", result.agent_name>>,
                        Some("search_events"),
                        Some(<<"Found events", Len(result.events)>>),
                        result.confidence),
                    Tail(results), all_events \o result.events)
            ELSE ProcessSearchResults(
                    add_observation(c,
                        <<"SearchAgent:", result.agent_name>>,
                        <<"Searching API", result.agent_name>>,
                        Some("search_events"),
                        Some(<<"Failed:", result.error_message>>),
                        Rat(0, 1)),
                    Tail(results), all_events)

RECURSIVE DedupeLoop_CaseSensitive(_, _, _)
\* a deduplication that compares the titles as written
DedupeLoop_CaseSensitive(all_events, seen_titles, unique_events) ==
    IF all_events = <<>> THEN unique_events
    ELSE LET event == Head(all_events)
         IN IF event.title \notin seen_titles
            THEN DedupeLoop_CaseSensitive(Tail(all_events), seen_titles \cup {event.title},
                                          Append(unique_events, event))
            ELSE DedupeLoop_CaseSensitive(Tail(all_events), seen_titles, unique_events)

RECURSIVE DedupeLoop(_, _, _)
\* lines 225-232: keep an event iff its lower-cased title was not seen yet
DedupeLoop(all_events, seen_titles, unique_events) ==
    IF all_events = <<>> THEN unique_events
    ELSE LET event == Head(all_events)
             title_lower == Lower(event.title)
         IN IF title_lower \notin seen_titles
            THEN DedupeLoop(Tail(all_events), seen_titles \cup {title_lower},
                            Append(unique_events, event))
            ELSE DedupeLoop(Tail(all_events), seen_titles, unique_events)

Deduplicate(all_events) == DedupeLoop(all_events, {}, <<>>)

RECURSIVE SelectEvents(_, _)
\* [e for e in events if not e.<field>]
SelectEvents(s, field) ==
    IF s = <<>> THEN <<>>
    ELSE IF Head(s)[field] = None
         THEN <<Head(s)>> \o SelectEvents(Tail(s), field)
         ELSE SelectEvents(Tail(s), field)

\* a gap analysis that asks one question for every event without a URL
_reason_and_generate_questions_per_event(st) ==
    LET events_without_urls == SelectEvents(st.events_found, "url")
    IN [i \in 1..Len(events_without_urls) |->
            Question(<<"Should we exclude this event without URL?", i>>, 5)]

\* lines 513-542: one aggregate Question per kind of gap
_reason_and_generate_questions(st) ==
    LET events_without_dates == SelectEvents(st.events_found, "start_time")
        events_without_urls == SelectEvents(st.events_found, "url")
        events_without_location == SelectEvents(st.events_found, "location")
    IN (IF events_without_dates # <<>>
        THEN <<Question(<<"How can we determine dates?", Len(events_without_dates)>>, 8)>>
        ELSE <<>>)
       \o (IF events_without_urls # <<>>
           THEN <<Question(<<"Should we exclude events without URLs?",
                             Len(events_without_urls)>>, 5)>>
           ELSE <<>>)
       \o (IF events_without_location # <<>>
           THEN <<Question(<<"Can we verify venue details?",
                             Len(events_without_location)>>, 7)>>
           ELSE <<>>)

\* a search handler that goes on to REVIEWING whatever it found
SearchDecideNextPhase_AlwaysReviews(c, unique_events) ==
    [add_observation(c, <<"PlanningAgent">>, <<"Events found.">>,
                     Some("transition_to_review"),
                     Some(<<"Moving to REVIEWING phase">>), Rat(95, 100))
        EXCEPT !.st.phase = REVIEWING]

\* a search handler that starts over when it found nothing
SearchDecideNextPhase_Retries(c, unique_events) ==
    IF Len(unique_events) > 0
    THEN [c EXCEPT !.st.phase = REVIEWING]
    ELSE [c EXCEPT !.st.phase = INITIALIZING]

\* lines 248-266: REVIEWING when there are events, COMPLETE otherwise
SearchDecideNextPhase(c, unique_events) ==
    IF Len(unique_events) > 0
    THEN [add_observation(c, <<"PlanningAgent">>, <<"Events found.">>,
                          Some("transition_to_review"),
                          Some(<<"Moving to REVIEWING phase">>), Rat(95, 100))
            EXCEPT !.st.phase = REVIEWING]
    ELSE mark_complete(
            add_observation(c, <<"PlanningAgent">>, <<"No events found. Cannot proceed.">>,
                            Some("skip_to_complete"),
                            Some(<<"Moving to COMPLETE (no events)">>), Rat(1, 1)))

\* the whole handler, given what run_search_agents_parallel returned
_search_phase(c, results) ==
    LET c1 == add_observation(c, <<"PlanningAgent">>,
                              <<"Need to gather events.", Len(search_agents)>>,
                              Some("invoke_parallel_search_agents"), None, Rat(1, 1))
        p == ProcessSearchResults(c1, results, <<>>)
        unique_events == Deduplicate(p.all_events)
        c2 == [p.c EXCEPT !.st.events_found = unique_events]
        c3 == add_observation(c2, <<"PlanningAgent">>,
                              <<"Search phase complete.", Len(unique_events),
                                Len(c2.st.search_sources_completed)>>,
                              Some("analyze_search_results"),
                              Some(<<"Total unique events", Len(unique_events)>>),
                              Rat(9, 10))
        questions == _reason_and_generate_questions(c3.st)
        c4 == [c3 EXCEPT !.st.questions_to_investigate = @ \o questions]
    IN Returned(SearchDecideNextPhase(c4, unique_events))

-----------------------------------------------------------------------------
(* Review swarm: run_review_swarm (review_agents.py:412-493). *)

\* PlanningAgent.review_agents, by agent id (di.py wires these without API keys)
review_agents == <<"relevance_scorer", "date_verifier">>

EnrichedEvent(event, verified, notes, confidence_score, description, venue, url, metadata) ==
    [event |-> event, verified |-> verified,
     verification_notes |-> notes,
     confidence_score |-> confidence_score,
     enriched_description |-> description,
     venue_verified |-> venue, url_working |-> url,
     additional_metadata |-> metadata]

ReviewAgentResult(agent_id, enriched_event, success, error_message) ==
    [agent_id |-> agent_id, enriched_event |-> enriched_event,
     success |-> success, error_message |-> error_message]

\* dict.update: keys of b overwrite keys of a
DictUpdate(a, b) ==
    [k \in (DOMAIN a) \cup (DOMAIN b) |-> IF k \in DOMAIN b THEN b[k] ELSE a[k]]

EmptyDict == [k \in {} |-> 0]

\* results a review agent may give for an event, as gather holds them
ReviewVerifiedHigh(agent_id, event) ==
    GatherValue(ReviewAgentResult(agent_id,
        EnrichedEvent(event, TRUE, <<"URL validated">>, Rat(1, 1), None,
                      FALSE, TRUE, [relevance_score |-> 12]),
        TRUE, None))

ReviewUnverifiedMid(agent_id, event) ==
    GatherValue(ReviewAgentResult(agent_id,
        EnrichedEvent(event, FALSE, <<"Not in date window">>, Rat(1, 2),
                      Some("enriched by unverified"), TRUE, FALSE, EmptyDict),
        TRUE, None))

ReviewVerifiedLow(agent_id, event) ==
    GatherValue(ReviewAgentResult(agent_id,
        EnrichedEvent(event, TRUE, <<"Found on web">>, Rat(7, 10),
                      Some("enriched by verified"), FALSE, FALSE,
                      [relevance_score |-> 3, checked |-> 1]),
        TRUE, None))

ReviewFailed(agent_id, event) ==
    GatherValue(ReviewAgentResult(agent_id,
        EnrichedEvent(event, TRUE, <<"partial check">>, Rat(1, 1),
                      Some("from failed result"), TRUE, TRUE, [failed |-> 1]),
        FALSE, Some("review failed")))

\* outcomes drawn in the workflow
ReviewOutcomes(agent_id, event) ==
    {GatherException("review timed out"),
     ReviewVerifiedHigh(agent_id, event),
     ReviewUnverifiedMid(agent_id, event)}

\* outcomes drawn when the swarm is exercised on its own
SwarmOutcomes(agent_id, event) ==
    ReviewOutcomes(agent_id, event)
    \cup {ReviewVerifiedLow(agent_id, event), ReviewFailed(agent_id, event)}

\* a filter that keeps a raised exception as a failed result of its agent
SelectValues_KeepsExceptions(results) ==
    [i \in 1..Len(results) |->
        IF results[i].kind = "value" THEN results[i].value
        ELSE ReviewAgentResult("unknown", None, FALSE, Some(results[i].message))]

RECURSIVE SelectValues(_)
\* line 450: valid_results = [r for r in results if isinstance(r, ReviewAgentResult)]
SelectValues(results) ==
    IF results = <<>> THEN <<>>
    ELSE IF Head(results).kind = "value"
         THEN <<Head(results).value>> \o SelectValues(Tail(results))
         ELSE SelectValues(Tail(results))

\* lines 441-448: the accumulators before the loop
AggregateStart ==
    [all_notes |-> <<>>, all_metadata |-> EmptyDict, total_confidence |-> Rat(0, 1),
     verified_count |-> 0, url_working |-> FALSE, venue_verified |-> FALSE,
     enriched_desc |-> None]

\* lines 453-468: one turn of the loop, for a valid result
AggregateStep(acc, result) ==
    IF result.success
    THEN LET enriched == result.enriched_event
         IN [all_notes |-> acc.all_notes \o enriched.verification_notes,
             all_metadata |-> DictUpdate(acc.all_metadata, enriched.additional_metadata),
             total_confidence |-> RatAdd(acc.total_confidence, enriched.confidence_score),
             verified_count |-> acc.verified_count + (IF enriched.verified THEN 1 ELSE 0),
             url_working |-> acc.url_working \/ enriched.url_working,
             venue_verified |-> acc.venue_verified \/ enriched.venue_verified,
             enriched_desc |-> IF enriched.enriched_description # None
                               THEN enriched.enriched_description
                               ELSE acc.enriched_desc]
    ELSE acc

RECURSIVE AggregateLoop(_, _)
AggregateLoop(acc, valid_results) ==
    IF valid_results = <<>> THEN acc
    ELSE AggregateLoop(AggregateStep(acc, Head(valid_results)), Tail(valid_results))

\* line 471: total_confidence / len(valid_results) if valid_results else 0.5
AverageConfidence(total_confidence, valid_results) ==
    IF valid_results # <<>> THEN RatDiv(total_confidence, Len(valid_results))
    ELSE Rat(1, 2)

\* line 474: verified_count > len(valid_results) / 2
IsVerified(verified_count, valid_results) ==
    2 * verified_count > Len(valid_results)

\* lines 431-486, given gather's results for the agents on this event
review_event_with_all_agents(event, results) ==
    LET valid_results == SelectValues(results)
        acc == AggregateLoop(AggregateStart, valid_results)
    IN EnrichedEvent(event,
                     IsVerified(acc.verified_count, valid_results),
                     acc.all_notes,
                     AverageConfidence(acc.total_confidence, valid_results),
                     acc.enriched_desc, acc.venue_verified, acc.url_working,
                     acc.all_metadata)

\* lines 488-493: one EnrichedEvent per event; results[i] are event i's results
run_review_swarm(events, results) ==
    [i \in 1..Len(events) |-> review_event_with_all_agents(events[i], results[i])]

-----------------------------------------------------------------------------
(* _review_phase (planning_agent.py:270-340) *)

RECURSIVE CountVerified(_)
CountVerified(enriched_events) ==
    IF enriched_events = <<>> THEN 0
    ELSE (IF Head(enriched_events).verified THEN 1 ELSE 0)
         + CountVerified(Tail(enriched_events))

\* [e.confidence_score for e in enriched_events]
Confidences(enriched_events) ==
    [i \in 1..Len(enriched_events) |-> enriched_events[i].confidence_score]

\* line 291: the mean confidence of the enriched events, 0 when there are none
MeanConfidence(enriched_events) ==
    IF enriched_events # <<>>
    THEN RatDiv(RatSum(Confidences(enriched_events)), Len(enriched_events))
    ELSE Rat(0, 1)

\* a resolution that answers every open question whatever the confidence
AnswerQuestions_Always(questions, avg_confidence) ==
    [i \in 1..Len(questions) |->
        IF ~questions[i].answered
        THEN [questions[i] EXCEPT !.answered = TRUE,
                !.answer = Some(<<"Resolved via review swarm", avg_confidence>>)]
        ELSE questions[i]]

\* lines 302-307: an unanswered question is answered when avg_confidence > 0.7
AnswerQuestions(questions, avg_confidence) ==
    [i \in 1..Len(questions) |->
        IF ~questions[i].answered /\ RatGT(avg_confidence, Rat(7, 10))
        THEN [questions[i] EXCEPT !.answered = TRUE,
                !.answer = Some(<<"Resolved via review swarm", avg_confidence>>)]
        ELSE questions[i]]

\* lines 309-340. PlanningAgent.research_enabled is read first; only when it
\* is true is state.research_enabled read, and PlanningState has no such
\* field (agent_models.py:53-78), so that read raises AttributeError.
ReviewDecideNextPhase(c, avg_confidence, planner_research_enabled) ==
    IF RatGT(avg_confidence, Rat(6, 10))
    THEN IF planner_research_enabled
         THEN Raised(c, ErrNoResearchEnabledField)
         ELSE Returned(
                [add_observation(c, <<"PlanningAgent">>,
                                 <<"Data quality is sufficient. Ready to generate promo.">>,
                                 Some("transition_to_synthesize"),
                                 Some(<<"Moving to SYNTHESIZING phase">>), Rat(95, 100))
                    EXCEPT !.st.phase = SYNTHESIZING])
    ELSE Returned(
            [add_observation(c, <<"PlanningAgent">>,
                             <<"Data quality is low but proceeding anyway.">>,
                             Some("transition_to_synthesize"),
                             Some(<<"Moving to SYNTHESIZING phase (low confidence)">>),
                             Rat(7, 10))
                EXCEPT !.st.phase = SYNTHESIZING])

\* the whole handler, given gather's results for every event and agent
_review_phase(c, results, planner_research_enabled) ==
    LET c1 == add_observation(c, <<"PlanningAgent">>,
                              <<"Need to validate events.", Len(c.st.events_found),
                                Len(review_agents)>>,
                              Some("invoke_review_swarm"), None, Rat(1, 1))
        enriched_events == run_review_swarm(c1.st.events_found, results)
        c2 == [c1 EXCEPT !.st.events_reviewed = enriched_events]
        verified_count == CountVerified(enriched_events)
        avg_confidence == MeanConfidence(enriched_events)
        c3 == add_observation(c2, <<"PlanningAgent">>,
                              <<"Review phase complete.", verified_count,
                                Len(enriched_events)>>,
                              Some("analyze_review_results"),
                              Some(<<"Verified, Avg confidence", verified_count,
                                     avg_confidence>>),
                              avg_confidence)
        c4 == [c3 EXCEPT !.st.questions_to_investigate =
                            AnswerQuestions(@, avg_confidence)]
    IN ReviewDecideNextPhase(c4, avg_confidence, planner_research_enabled)

-----------------------------------------------------------------------------
(* run_workflow (planning_agent.py:123-176) *)

\* line 130
max_iterations == 10

\* line 134: the while condition
LoopContinues == state.phase # COMPLETE /\ iteration < max_iterations

\* lines 142-149: the phases whose comparison succeeds before line 151
HandlerOf(phase) ==
    CASE phase = INITIALIZING -> "_initialize_phase"
      [] phase = SEARCHING -> "_search_phase"
      [] phase = REVIEWING -> "_review_phase"
      [] OTHER -> "none"

\* an except clause that logs the failure with add_observation's default confidence
ExceptClause_DefaultConfidence(c, e) ==
    add_observation(mark_failed(c, e), <<"PlanningAgent">>,
                    <<"Workflow failed:", e>>, None, None, Rat(1, 1))

\* lines 168-174: the except clause
ExceptClause(c, e) ==
    add_observation(mark_failed(c, e), <<"PlanningAgent">>,
                    <<"Workflow failed:", e>>, None, None, Rat(0, 1))

\* lines 160-166: after the loop
AfterLoop(c, iter) ==
    IF iter >= max_iterations
    THEN mark_complete(
            add_observation(c, <<"PlanningAgent">>,
                            <<"Max iterations reached, completing workflow">>,
                            None, None, Rat(7, 10)))
    ELSE c

Context == [st |-> state, clk |-> clock]

\* a loop turn ends: the handler returned, or it raised into the except clause
EndTurn(outcome) ==
    IF outcome.exc = None
    THEN /\ state' = outcome.c.st
         /\ clock' = outcome.c.clk
         /\ pc' = "loop"
         /\ raised' = raised
    ELSE LET c == ExceptClause(outcome.c, outcome.exc[1])
         IN /\ state' = c.st
            /\ clock' = c.clk
            /\ pc' = "returned"
            /\ raised' = outcome.exc

\* line 135 and the bookkeeping of a turn that invokes a handler
EnterHandler ==
    /\ pc = "loop"
    /\ LoopContinues
    /\ iteration' = iteration + 1
    /\ handlers_entered' = handlers_entered \cup {HandlerOf(state.phase)}
    /\ handler_calls' = handler_calls + 1

InitializeTurn ==
    /\ state.phase = INITIALIZING
    /\ EnterHandler
    /\ EndTurn(_initialize_phase(Context))
    /\ UNCHANGED <<search_results, review_results, review_calls, promo_calls,
                   research_configured, enable_research, swarm_event, swarm_results,
                   swarm_out, fan>>

\* every combination of outcomes of the search agents
SearchGathers ==
    {g \in [1..Len(search_agents) -> UNION {SearchOutcomes(search_agents[i]) :
                                               i \in 1..Len(search_agents)}] :
        \A i \in 1..Len(search_agents) : g[i] \in SearchOutcomes(search_agents[i])}

SearchTurn ==
    /\ state.phase = SEARCHING
    /\ EnterHandler
    /\ \E gathered \in SearchGathers :
          LET results == run_search_agents_parallel(gathered)
          IN /\ search_results' = Some(results)
             /\ EndTurn(_search_phase(Context, results))
    /\ UNCHANGED <<review_results, review_calls, promo_calls, research_configured,
                   enable_research, swarm_event, swarm_results, swarm_out, fan>>

\* every combination of outcomes of the review agents on one event
ReviewGathers(event) ==
    {g \in [1..Len(review_agents) -> UNION {ReviewOutcomes(review_agents[i], event) :
                                               i \in 1..Len(review_agents)}] :
        \A i \in 1..Len(review_agents) : g[i] \in ReviewOutcomes(review_agents[i], event)}

\* every combination of outcomes on every event
ReviewMatrices(events) ==
    {m \in [1..Len(events) -> UNION {ReviewGathers(events[i]) : i \in 1..Len(events)}] :
        \A i \in 1..Len(events) : m[i] \in ReviewGathers(events[i])}

ReviewTurn ==
    /\ state.phase = REVIEWING
    /\ EnterHandler
    /\ \E results \in ReviewMatrices(state.events_found) :
          /\ review_results' = Some(results)
          /\ review_calls' = review_calls + Len(state.events_found) * Len(review_agents)
          /\ EndTurn(_review_phase(Context, results, research_configured))
    /\ UNCHANGED <<search_results, promo_calls, research_configured,
                   enable_research, swarm_event, swarm_results, swarm_out, fan>>

\* lines 151-158: for any other phase the comparison with AgentPhase.RESEARCHING
\* is evaluated, and the enum has no such member: AttributeError, inside the try.
DispatchFault ==
    /\ pc = "loop"
    /\ LoopContinues
    /\ HandlerOf(state.phase) = "none"
    /\ iteration' = iteration + 1
    /\ EndTurn(Raised(Context, ErrNoResearchingPhase))
    /\ UNCHANGED <<handlers_entered, handler_calls, search_results, review_results,
                   review_calls, promo_calls, research_configured, enable_research,
                   swarm_event, swarm_results, swarm_out, fan>>

\* lines 134, 160-166, 176: the loop ends without a fault and the state is returned
Return ==
    /\ pc = "loop"
    /\ ~LoopContinues
    /\ LET c == AfterLoop(Context, iteration)
       IN /\ state' = c.st
          /\ clock' = c.clk
    /\ pc' = "returned"
    /\ UNCHANGED <<iteration, raised, handlers_entered, handler_calls, search_results,
                   review_results, review_calls, promo_calls, research_configured,
                   enable_research, swarm_event, swarm_results, swarm_out, fan>>

\* AgenticEventService.run_daily_event_flow builds the state and calls run_workflow
Init ==
    /\ state = PlanningState(0)
    /\ clock = 1
    /\ pc = "loop"
    /\ iteration = 0
    /\ raised = None
    /\ handlers_entered = {}
    /\ handler_calls = 0
    /\ search_results = None
    /\ review_results = None
    /\ review_calls = 0
    /\ promo_calls = 0
    /\ research_configured \in BOOLEAN
    /\ enable_research \in BOOLEAN
    /\ swarm_event = None
    /\ swarm_results = <<>>
    /\ swarm_out = None
    /\ fan = None

Next ==
    \/ InitializeTurn
    \/ SearchTurn
    \/ ReviewTurn
    \/ DispatchFault
    \/ Return

Spec == Init /\ [][Next]_vars

-----------------------------------------------------------------------------
(* run_workflow driven with stand-in phase handlers: the loop of lines     *)
(* 129-176 is the code's, the handlers are arbitrary procedures on the     *)
(* state (a handler that stays in its phase, one that always faults, ...). *)

StubFaults == {"boom", "search backend down"}

StubBehaviours ==
    {[kind |-> "set_phase", phase |-> p, log |-> l, message |-> ""] :
        p \in AgentPhase \ {COMPLETE}, l \in BOOLEAN}
    \cup {[kind |-> "mark_complete", phase |-> COMPLETE, log |-> l, message |-> ""] :
            l \in BOOLEAN}
    \cup {[kind |-> "raise", phase |-> FAILED, log |-> l, message |-> m] :
            l \in BOOLEAN, m \in StubFaults}

\* a stand-in handler: it may log, then assigns a phase, completes or raises
StubHandler(c, b) ==
    LET c1 == IF b.log
              THEN add_observation(c, <<"StubHandler">>, <<"stand-in handler ran">>,
                                   None, None, Rat(1, 1))
              ELSE c
    IN CASE b.kind = "set_phase" -> Returned([c1 EXCEPT !.st.phase = b.phase])
         [] b.kind = "mark_complete" -> Returned(mark_complete(c1))
         [] OTHER -> Raised(c1, b.message)

StubTurn ==
    /\ HandlerOf(state.phase) # "none"
    /\ EnterHandler
    /\ \E b \in StubBehaviours : EndTurn(StubHandler(Context, b))
    /\ UNCHANGED <<search_results, review_results, review_calls, promo_calls,
                   research_configured, enable_research, swarm_event, swarm_results,
                   swarm_out, fan>>

StubNext ==
    \/ StubTurn
    \/ DispatchFault
    \/ Return

StubSpec == Init /\ [][StubNext]_vars

-----------------------------------------------------------------------------
(* The review aggregation of one event on its own: any number of agents up *)
(* to MaxSwarmAgents, any outcome for each.                                *)

\* agent ids of the swarm's agents, by position (di.py wires up to four)
SwarmAgentId(i) ==
    CASE i = 1 -> "relevance_scorer"
      [] i = 2 -> "date_verifier"
      [] i = 3 -> "web_search_enricher"
      [] OTHER -> "content_enricher"

SwarmGathers(event) ==
    {g \in SeqsUpTo(UNION {SwarmOutcomes(SwarmAgentId(i), event) : i \in 1..MaxSwarmAgents},
                    MaxSwarmAgents) :
        \A i \in 1..Len(g) : g[i] \in SwarmOutcomes(SwarmAgentId(i), event)}

SwarmInit ==
    /\ state = PlanningState(0)
    /\ clock = 1
    /\ pc = "swarm"
    /\ iteration = 0
    /\ raised = None
    /\ handlers_entered = {}
    /\ handler_calls = 0
    /\ search_results = None
    /\ review_results = None
    /\ review_calls = 0
    /\ promo_calls = 0
    /\ research_configured = FALSE
    /\ enable_research = FALSE
    /\ swarm_event \in EventPool
    /\ swarm_results \in SwarmGathers(swarm_event)
    /\ swarm_out = None
    /\ fan = None

\* run_review_swarm([event], agents) with the drawn outcomes
SwarmReview ==
    /\ pc = "swarm"
    /\ swarm_out = None
    /\ swarm_out' = Some(run_review_swarm(<<swarm_event>>, <<swarm_results>>)[1])
    /\ review_calls' = Len(swarm_results)
    /\ UNCHANGED <<state, clock, pc, iteration, raised, handlers_entered, handler_calls,
                   search_results, review_results, promo_calls, research_configured,
                   enable_research, swarm_event, swarm_results, fan>>

SwarmNext == SwarmReview

SwarmSpec == SwarmInit /\ [][SwarmNext]_vars

\* The event loop keeps running the run_workflow coroutine while its
\* collaborators return or raise: each kind of loop turn, once possible, is
\* eventually taken (weak fairness). For the turns that await the search and
\* review agents the condition WF_vars(SearchTurn \/ ReviewTurn) is written
\* out, <>[]ENABLED => []<>taken, with the enabling condition and the step
\* stated directly.
AgentTurnEnabled ==
    pc = "loop" /\ LoopContinues /\ state.phase \in {SEARCHING, REVIEWING}

AgentTurnTaken == AgentTurnEnabled /\ handler_calls' = handler_calls + 1

FairSpec ==
    /\ Spec
    /\ WF_vars(InitializeTurn)
    /\ WF_vars(DispatchFault)
    /\ WF_vars(Return)
    /\ ([]<>(~AgentTurnEnabled) \/ []<><<AgentTurnTaken>>_vars)

-----------------------------------------------------------------------------
(* Claims *)

TerminalPhases == {COMPLETE, FAILED}

\* C1: a fault raised in any loop turn (by a handler, or by whatever it calls)
\* never leaves run_workflow: the call returns a state in FAILED whose
\* error_message is the fault's text and whose last observation has confidence 0.
C1_FaultYieldsFailedState ==
    /\ pc \in {"loop", "returned"}
    /\ raised # None =>
        /\ pc = "returned"
        /\ state.phase = FAILED
        /\ state.error_message = raised
        /\ state.scratchpad # <<>>
        /\ Last(state.scratchpad).confidence = Rat(0, 1)

\* a handler faulted in the third turn, after earlier handlers had logged
C1_Witness ==
    /\ raised = Some("boom")
    /\ pc = "returned"
    /\ handler_calls = 3
    /\ Len(state.scratchpad) >= 3

\* C2: every run of run_workflow started in INITIALIZING returns, and the
\* state it returns is in COMPLETE or FAILED, never in an intermediate phase.
C2_ReturnsInTerminalPhase ==
    /\ <>(pc = "returned")
    /\ [](pc = "returned" => state.phase \in TerminalPhases)

\* a run that went through three handlers and returned
C2_Witness ==
    /\ pc = "returned"
    /\ handler_calls = 3
    /\ state.phase \in TerminalPhases

AllSearchesSucceeded ==
    /\ search_results # None
    /\ \A i \in 1..Len(search_results[1]) : search_results[1][i].success

AllReviewsReturned ==
    /\ review_results # None
    /\ \A i \in 1..Len(review_results[1]) :
          \A j \in 1..Len(review_results[1][i]) : review_results[1][i][j].kind = "value"

\* C3: a run that found at least one event and whose collaborators did not
\* fault invokes the promo agent exactly once, stores its text in
\* promo_generated and ends in COMPLETE.
C3_EventsLeadToOnePromo ==
    (/\ pc = "returned"
     /\ Len(state.events_found) > 0
     /\ AllSearchesSucceeded
     /\ AllReviewsReturned)
    => /\ state.phase = COMPLETE
       /\ promo_calls = 1
       /\ state.promo_generated # None

\* the order of the phases; RESEARCHING, which the enum lacks, would sit at 3
PhaseRank(p) ==
    CASE p = INITIALIZING -> 0
      [] p = SEARCHING -> 1
      [] p = REVIEWING -> 2
      [] p = SYNTHESIZING -> 4
      [] p = COMPLETE -> 5
      [] OTHER -> 6

\* q directly follows p in the order, RESEARCHING being optional
FollowsInOrder(p, q) ==
    \/ PhaseRank(q) = PhaseRank(p) + 1
    \/ p = REVIEWING /\ q = SYNTHESIZING

\* C4: the phase is always a member of AgentPhase, and every step that changes
\* it moves it to the next phase of the order or jumps to COMPLETE or FAILED;
\* no step moves it to an earlier phase.
C4_PhaseOnlyAdvances ==
    [][/\ state'.phase \in AgentPhase
       /\ state'.phase # state.phase =>
            /\ \/ state'.phase \in TerminalPhases
               \/ FollowsInOrder(state.phase, state'.phase)
            /\ state'.phase # FAILED => PhaseRank(state'.phase) > PhaseRank(state.phase)]_vars

\* a run that advanced phase by phase up to SYNTHESIZING
C4_Witness ==
    /\ state.phase = SYNTHESIZING
    /\ handlers_entered = {"_initialize_phase", "_search_phase", "_review_phase"}

\* the phase the claim names; AgentPhase has no such member
ClaimedResearchingPhase == "researching"

\* C5: when the review handler has returned, the phase is RESEARCHING if the
\* planner has a research pipeline and research is enabled on the run, and
\* SYNTHESIZING otherwise, whatever the mean confidence.
C5_ReviewTargetFollowsResearchFlags ==
    (/\ pc = "loop"
     /\ "_review_phase" \in handlers_entered)
    => state.phase = IF research_configured /\ enable_research
                     THEN ClaimedResearchingPhase
                     ELSE SYNTHESIZING

\* the enriched events of the successful results among gather's results
RECURSIVE SuccessfulEnriched(_)
SuccessfulEnriched(results) ==
    IF results = <<>> THEN <<>>
    ELSE IF Head(results).kind = "value" /\ Head(results).value.success
         THEN <<Head(results).value.enriched_event>> \o SuccessfulEnriched(Tail(results))
         ELSE SuccessfulEnriched(Tail(results))

\* C6: the aggregated verified flag is true iff v > n/2, with n the number of
\* successful agent results for the event (agents that raised or returned
\* success=false excluded) and v the number of those that voted verified.
C6_MajorityOfSuccessful ==
    swarm_out # None =>
        LET successful == SuccessfulEnriched(swarm_results)
        IN swarm_out[1].verified <=> 2 * CountVerified(successful) > Len(successful)

\* C7: the aggregated confidence is the mean of the successful results'
\* confidences, and 0.5 when no result is successful.
C7_MeanOfSuccessful ==
    swarm_out # None =>
        LET successful == SuccessfulEnriched(swarm_results)
        IN swarm_out[1].confidence_score =
              IF successful = <<>> THEN Rat(1, 2)
              ELSE RatDiv(RatSum(Confidences(successful)), Len(successful))

\* the events of the successful search results, in result order
RECURSIVE MergedEvents(_)
MergedEvents(results) ==
    IF results = <<>> THEN <<>>
    ELSE (IF Head(results).success THEN Head(results).events ELSE <<>>)
         \o MergedEvents(Tail(results))

\* C8: after the search, no two events of events_found have the same
\* lower-cased title, every lower-cased title of a successful result is
\* represented, and each event of events_found is, unchanged, the first event
\* of the merged sequence with its lower-cased title.
C8_DedupKeepsFirstPerTitle ==
    search_results # None =>
        LET merged == MergedEvents(search_results[1])
            found == state.events_found
        IN /\ \A i, j \in 1..Len(found) :
                i # j => Lower(found[i].title) # Lower(found[j].title)
           /\ \A k \in 1..Len(merged) :
                \E i \in 1..Len(found) : Lower(found[i].title) = Lower(merged[k].title)
           /\ \A i \in 1..Len(found) :
                \E k \in 1..Len(merged) :
                    /\ found[i] = merged[k]
                    /\ \A j \in 1..(k - 1) :
                          Lower(merged[j].title) # Lower(found[i].title)

\* two agents returned case variants of one title with different data
C8_Witness ==
    /\ search_results # None
    /\ Len(MergedEvents(search_results[1])) = 2
    /\ MergedEvents(search_results[1])[1].title # MergedEvents(search_results[1])[2].title
    /\ Len(state.events_found) = 1
    /\ state.events_found[1] = MergedEvents(search_results[1])[1]

CapThought == <<"Max iterations reached, completing workflow">>

\* C9: no more than max_iterations handlers are ever invoked, and a run that
\* ends while the phase is not COMPLETE, in a step in which no handler ran (so
\* no handler completed the run and none raised), has invoked exactly
\* max_iterations handlers; that step appends the one observation citing the
\* cap and returns the state in COMPLETE with completed_at set.
C9_IterationCap ==
    [][/\ handler_calls' <= max_iterations
       /\ (/\ pc = "loop" /\ pc' = "returned"
           /\ state.phase # COMPLETE
           /\ handler_calls' = handler_calls)
          => /\ handler_calls = max_iterations
             /\ state'.scratchpad =
                   Append(state.scratchpad,
                          Observation(clock, <<"PlanningAgent">>, CapThought,
                                      None, None, Rat(7, 10)))
             /\ state'.phase = COMPLETE
             /\ state'.completed_at # None]_vars

NoEventsFound ==
    /\ search_results # None
    /\ MergedEvents(search_results[1]) = <<>>

\* C10: when every search agent returned an empty or failed result or raised,
\* the search handler leaves the phase at COMPLETE, no other handler is entered
\* afterwards, no review or promo collaborator is called, and the run is not
\* FAILED.
C10_ZeroEventsShortCircuit ==
    NoEventsFound =>
        /\ state.phase = COMPLETE
        /\ handlers_entered = {"_initialize_phase", "_search_phase"}
        /\ review_calls = 0
        /\ promo_calls = 0
        /\ raised = None
        /\ state.error_message = None

\* one agent raised, the other had no API key, and the run returned
C10_Witness ==
    /\ NoEventsFound
    /\ pc = "returned"
    /\ search_results[1][1].agent_name = "Agent_0"
    /\ search_results[1][2].error_message = Some("No API key configured")

-----------------------------------------------------------------------------
(* The search fan-out on its own (search_agents.py:464-492): the agents'   *)
(* coroutines complete in any order, asyncio.gather hands back one entry   *)
(* per awaitable in the order the awaitables were given.                   *)

\* largest number of agents (or events) in one batch of the fan-out specifications
MaxFanAgents == 3

\* every variable but fan: the fan-out specifications leave the workflow alone
workflow_vars ==
    <<state, clock, pc, iteration, raised, handlers_entered, handler_calls,
      search_results, review_results, review_calls, promo_calls,
      research_configured, enable_research, swarm_event, swarm_results, swarm_out>>

\* no workflow is running while a fan-out is examined on its own
WorkflowIdle ==
    /\ state = PlanningState(0)
    /\ clock = 1
    /\ pc = "fan"
    /\ iteration = 0
    /\ raised = None
    /\ handlers_entered = {}
    /\ handler_calls = 0
    /\ search_results = None
    /\ review_results = None
    /\ review_calls = 0
    /\ promo_calls = 0
    /\ research_configured = FALSE
    /\ enable_research = FALSE
    /\ swarm_event = None
    /\ swarm_results = <<>>
    /\ swarm_out = None

\* a task of the batch that has not completed yet
Pending == [kind |-> "pending"]

\* the names of the search agents di.py wires, by position
FanAgentName(i) ==
    CASE i = 1 -> "SerpAPI (Google Events)"
      [] i = 2 -> "Ticketmaster"
      [] i = 3 -> "Meetup"
      [] OTHER -> "Other"

\* what the search of the agent called name may end with
FanSearchOutcomes(name) ==
    {GatherException("search timed out"), GatherException("connection reset")}
    \cup {GatherValue(SearchAgentResult(name, <<>>, FALSE,
                                        Some("No API key configured"), Rat(0, 1)))}
    \cup {GatherValue(SearchAgentResult(name, <<>>, TRUE, None, Rat(9, 10)))}
    \cup {GatherValue(SearchAgentResult(name, <<e>>, TRUE, None, Rat(9, 10))) :
            e \in EventPool}

\* a gather that hands the results back in the order the tasks completed
gather_as_completed(slots, order) == [k \in 1..Len(order) |-> slots[order[k]]]

\* asyncio.gather: entry i is the outcome of awaitable i, whatever the order
\* in which the awaitables completed
gather(slots, order) == [i \in 1..Len(slots) |-> slots[i]]

SearchFanInit ==
    /\ WorkflowIdle
    /\ fan \in {[kind |-> "search", slots |-> [i \in 1..n |-> Pending],
                 order |-> <<>>, out |-> None] : n \in 0..MaxFanAgents}

\* the search_events() coroutine of one agent returns or raises
SearchTaskCompletes ==
    /\ fan.out = None
    /\ \E i \in 1..Len(fan.slots) :
          /\ fan.slots[i] = Pending
          /\ \E o \in FanSearchOutcomes(FanAgentName(i)) :
                fan' = [fan EXCEPT !.slots[i] = o, !.order = Append(@, i)]
    /\ UNCHANGED workflow_vars

\* all awaitables are done: gather returns, lines 477-492 run
SearchFanReturns ==
    /\ fan.out = None
    /\ \A i \in 1..Len(fan.slots) : fan.slots[i] # Pending
    /\ fan' = [fan EXCEPT !.out =
                  Some(run_search_agents_parallel(gather(fan.slots, fan.order)))]
    /\ UNCHANGED workflow_vars

SearchFanNext ==
    \/ SearchTaskCompletes
    \/ SearchFanReturns

SearchFanSpec == SearchFanInit /\ [][SearchFanNext]_vars

\* C11: run_search_agents_parallel returns one result per agent, at the
\* agent's index, whatever the order of completion: where the agent raised, a
\* failed result (success false, confidence 0, no events, error_message the
\* exception's text); where it returned, exactly what it returned.
C11_OneResultPerAgentInOrder ==
    fan.out # None =>
        LET out == fan.out[1]
        IN /\ Len(out) = Len(fan.slots)
           /\ \A i \in 1..Len(fan.slots) :
                IF fan.slots[i].kind = "exception"
                THEN /\ out[i].success = FALSE
                     /\ out[i].confidence = Rat(0, 1)
                     /\ out[i].events = <<>>
                     /\ out[i].error_message = Some(fan.slots[i].message)
                ELSE out[i] = fan.slots[i].value

\* the second agent finished first and found an event, the first one raised
C11_Witness ==
    /\ fan.out # None
    /\ Len(fan.slots) >= 2
    /\ fan.order[1] = 2
    /\ fan.slots[1].kind = "exception"
    /\ fan.slots[2].kind = "value"
    /\ Len(fan.slots[2].value.events) = 1

-----------------------------------------------------------------------------
(* The review swarm as concurrent tasks (review_agents.py:412-493): one    *)
(* task per event behind a semaphore; inside it, one coroutine per agent.  *)

\* largest number of events handed to one swarm call
MaxFanEvents == 2

\* largest max_concurrent of a swarm call
MaxConcurrent == 2

\* the events of a swarm call, in the order given
EventList ==
    << Event(<<"r">>, Some("Rodeo"), None, Some("NRG"), Some("sun"), Some("Meetup")),
       Event(<<"j", "n">>, None, None, None, None, Some("Ticketmaster")),
       Event(<<"J", "n">>, Some("Jazz Night at the park"), Some("https://a/jn"),
             Some("Park"), Some("fri"), Some("SerpAPI")),
       Event(<<"J", "N">>, Some("JAZZ"), None, Some("Hall"), Some("sat"), None) >>

\* a semaphore that lets everybody in
SemaphoreFree_Always(permits) == TRUE

\* asyncio.Semaphore: acquire goes through while the counter is positive
SemaphoreFree(permits) == permits > 0

ReviewFanInit ==
    /\ WorkflowIdle
    /\ fan \in {[kind |-> "review",
                 events |-> SubSeq(EventList, 1, n),
                 max_concurrent |-> k,
                 permits |-> k,
                 status |-> [e \in 1..n |-> "waiting"],
                 slots |-> [e \in 1..n |-> [a \in 1..Len(review_agents) |-> Pending]],
                 enriched |-> [e \in 1..n |-> Pending],
                 out |-> None] : n \in 0..MaxFanEvents, k \in 1..MaxConcurrent}

\* line 433: an event's task enters the semaphore; lines 435-438 start its agents
ReviewTaskEnters ==
    /\ \E e \in 1..Len(fan.events) :
          /\ fan.status[e] = "waiting"
          /\ SemaphoreFree(fan.permits)
          /\ fan' = [fan EXCEPT !.status[e] = "running", !.permits = @ - 1]
    /\ UNCHANGED workflow_vars

\* agent.review_event(event) returns or raises for one agent of a running task
ReviewAgentCompletes ==
    /\ \E e \in 1..Len(fan.events) :
          /\ fan.status[e] = "running"
          /\ \E a \in 1..Len(review_agents) :
                /\ fan.slots[e][a] = Pending
                /\ \E o \in ReviewOutcomes(review_agents[a], fan.events[e]) :
                      fan' = [fan EXCEPT !.slots[e][a] = o]
    /\ UNCHANGED workflow_vars

\* lines 440-486: the inner gather is done; the task aggregates, returns its
\* EnrichedEvent and leaves the semaphore
ReviewTaskAggregates ==
    /\ \E e \in 1..Len(fan.events) :
          /\ fan.status[e] = "running"
          /\ \A a \in 1..Len(review_agents) : fan.slots[e][a] # Pending
          /\ fan' = [fan EXCEPT
                        !.status[e] = "done",
                        !.permits = @ + 1,
                        !.enriched[e] =
                            review_event_with_all_agents(fan.events[e], fan.slots[e])]
    /\ UNCHANGED workflow_vars

\* lines 488-493: the outer gather is done; the list is returned
ReviewFanReturns ==
    /\ fan.out = None
    /\ \A e \in 1..Len(fan.events) : fan.status[e] = "done"
    /\ fan' = [fan EXCEPT !.out = Some(gather(fan.enriched, <<>>))]
    /\ UNCHANGED workflow_vars

ReviewFanNext ==
    \/ ReviewTaskEnters
    \/ ReviewAgentCompletes
    \/ ReviewTaskAggregates
    \/ ReviewFanReturns

ReviewFanSpec == ReviewFanInit /\ [][ReviewFanNext]_vars

\* The event loop runs every task that can take a step (weak fairness of
\* each step). For the aggregating step WF_vars(ReviewTaskAggregates) is
\* written out, with the enabling condition and the step stated directly.
AggregateEnabled ==
    \E e \in 1..Len(fan.events) :
        /\ fan.status[e] = "running"
        /\ \A a \in 1..Len(review_agents) : fan.slots[e][a] # Pending

AggregateTaken ==
    \E e \in 1..Len(fan.events) :
        fan.status[e] = "running" /\ fan'.status[e] = "done"

ReviewFanFairSpec ==
    /\ ReviewFanSpec
    /\ WF_vars(ReviewTaskEnters)
    /\ WF_vars(ReviewAgentCompletes)
    /\ WF_vars(ReviewFanReturns)
    /\ ([]<>(~AggregateEnabled) \/ []<><<AggregateTaken>>_vars)

\* gather's results for one event without the entries of the agents that raised
RECURSIVE WithoutRaised(_)
WithoutRaised(results) ==
    IF results = <<>> THEN <<>>
    ELSE IF Head(results).kind = "exception" THEN WithoutRaised(Tail(results))
         ELSE <<Head(results)>> \o WithoutRaised(Tail(results))

\* C12: run_review_swarm returns one EnrichedEvent per event, entry i for
\* event i, under every interleaving; an agent that raised contributes nothing:
\* entry i is the aggregate of the other agents' results alone, and when every
\* agent raised it is the neutral aggregate (no vote, confidence 0.5, no notes,
\* no metadata).
C12_OneEnrichedPerEventInOrder ==
    fan.out # None =>
        LET out == fan.out[1]
        IN /\ Len(out) = Len(fan.events)
           /\ \A i \in 1..Len(fan.events) :
                /\ out[i].event = fan.events[i]
                /\ out[i] = review_event_with_all_agents(fan.events[i],
                                                         WithoutRaised(fan.slots[i]))
                /\ WithoutRaised(fan.slots[i]) = <<>> =>
                      out[i] = EnrichedEvent(fan.events[i], FALSE, <<>>, Rat(1, 2),
                                             None, FALSE, FALSE, EmptyDict)

\* two events: for the first one agent raised and the other verified it, for
\* the second every agent raised
C12_Witness ==
    /\ fan.out # None
    /\ Len(fan.events) = 2
    /\ fan.slots[1][1].kind = "exception"
    /\ fan.slots[1][2].kind = "value"
    /\ fan.out[1][1].verified
    /\ WithoutRaised(fan.slots[2]) = <<>>

\* the events whose task is inside the semaphore, its agents running
UnderReview == {e \in 1..Len(fan.events) : fan.status[e] = "running"}

\* C13: with max_concurrent = k >= 1, at most k events are under review at any
\* time, and every event is eventually reviewed when the agents return.
C13_SemaphoreBound ==
    /\ [](Cardinality(UnderReview) <= fan.max_concurrent)
    /\ <>(\A e \in 1..Len(fan.events) : fan.status[e] = "done")

\* the semaphore is full, an agent of the event inside has answered, and
\* another event waits for the semaphore
C13_Witness ==
    /\ Cardinality(UnderReview) = fan.max_concurrent
    /\ \E e \in 1..Len(fan.events) : fan.status[e] = "waiting"
    /\ \E e \in UnderReview : fan.slots[e][1] # Pending

-----------------------------------------------------------------------------
(* _research_phase (planning_agent.py:342-472) called on a state whose     *)
(* events have been reviewed: one pipeline task per event, each a chain of *)
(* awaits on the research collaborators with code of the task in between.  *)

\* largest number of reviewed events handed to the research handler
MaxResearchEvents == 2

\* line 430: asyncio.Semaphore(5)
research_concurrency == 5

Entity(name, type, confidence) == [name |-> name, type |-> type, confidence |-> confidence]

ResearchQuery(query, priority, entity_name, query_type) ==
    [query |-> query, priority |-> priority, entity_name |-> entity_name,
     query_type |-> query_type]

ResearchResult(agent_id, query, sources, facts, confidence) ==
    [agent_id |-> agent_id, query |-> query, sources |-> sources, facts |-> facts,
     confidence |-> confidence]

EventResearch(event_title, entities, queries, results, narrative, insights, confidence) ==
    [event_title |-> event_title, entities |-> entities, queries |-> queries,
     results |-> results, synthesized_narrative |-> narrative,
     key_insights |-> insights, overall_confidence |-> confidence]

\* setattr on a pydantic model: a name that is no field of the model is
\* refused with ValueError, the object left as it was
SetAttr(c, name, value) ==
    IF name \in DOMAIN c.st
    THEN Returned([c EXCEPT !.st[name] = value])
    ELSE Raised(c, "\"PlanningState\" object has no field \"" \o name \o "\"")

\* the reviewed events the handler works on
ReviewedEvents(n) ==
    [i \in 1..n |->
        review_event_with_all_agents(EventList[i],
            <<ReviewVerifiedHigh(review_agents[1], EventList[i])>>)]

\* lines 438-448: the stand-in entry for an event whose pipeline raised;
\* `description or title` is the description unless it is None
MinimalResearch(enriched) ==
    EventResearch(enriched.event.title, <<>>, <<>>, <<>>,
                  IF enriched.event.description # None
                  THEN enriched.event.description
                  ELSE <<enriched.event.title>>,
                  <<>>, Rat(1, 2))

\* what the collaborators may answer
ExtractOutcomes == {GatherException("entity extraction failed"),
                    GatherValue(<<Entity("artist", "artist", Rat(9, 10))>>)}

GenerateOutcomes(entities) ==
    {GatherException("query generation failed"),
     GatherValue([i \in 1..Len(entities) |->
                    ResearchQuery(<<"who is", entities[i].name>>, 9,
                                  Some(entities[i].name), "biographical")])}

ResearchOutcomes(query) ==
    {GatherException("research backend down"),
     GatherValue(ResearchResult("web_search", query, <<>>, <<>>, Rat(0, 1))),
     GatherValue(ResearchResult("web_search", query, <<"https://s">>, <<"fact">>,
                                Rat(8, 10)))}

SynthesizeOutcomes(event, entities, results) ==
    {GatherException("synthesis failed"),
     GatherValue(EventResearch(event.title, entities,
                               [i \in 1..Len(results) |-> results[i].query], results,
                               <<"narrative">>, <<"fact">>, Rat(8, 10)))}

\* a pipeline task before it runs
NewTask == [step |-> "waiting", entities |-> <<>>, queries |-> <<>>, results |-> <<>>,
            returned |-> None, failed |-> FALSE]

\* the handler's context: the shared PlanningState and the clock
FanContext == [st |-> fan.st, clk |-> fan.clk]

ResearchInit ==
    /\ WorkflowIdle
    /\ fan \in {[kind |-> "research",
                 configured |-> b,
                 st |-> [PlanningState(0) EXCEPT !.phase = REVIEWING,
                                                 !.events_reviewed = ReviewedEvents(n)],
                 clk |-> 1,
                 hpc |-> "start",
                 permits |-> research_concurrency,
                 tasks |-> [e \in 1..n |-> NewTask],
                 slots |-> [e \in 1..n |-> Pending],
                 exc |-> None] : n \in 0..MaxResearchEvents, b \in BOOLEAN}

\* lines 345-355: without a research pipeline the handler only moves on
ResearchSkipped ==
    /\ fan.hpc = "start"
    /\ ~fan.configured
    /\ LET c == add_observation(FanContext, <<"PlanningAgent">>,
                                <<"Research not enabled, skipping to synthesis.">>,
                                Some("skip_research"),
                                Some(<<"Moving to SYNTHESIZING phase">>), Rat(1, 1))
       IN fan' = [fan EXCEPT !.st = [c.st EXCEPT !.phase = SYNTHESIZING],
                             !.clk = c.clk, !.hpc = "returned"]
    /\ UNCHANGED workflow_vars

\* lines 357-362 and 450-453: the handler logs and starts one task per event
ResearchStarts ==
    /\ fan.hpc = "start"
    /\ fan.configured
    /\ LET c == add_observation(FanContext, <<"PlanningAgent">>,
                                <<"Starting deep research.", Len(fan.st.events_reviewed)>>,
                                Some("invoke_research_pipeline"), None, Rat(1, 1))
       IN fan' = [fan EXCEPT !.st = c.st, !.clk = c.clk, !.hpc = "fanout"]
    /\ UNCHANGED workflow_vars

\* lines 433-435, 376: a task enters the semaphore and awaits extract_entities
ResearchTaskEnters ==
    /\ fan.hpc = "fanout"
    /\ \E e \in 1..Len(fan.tasks) :
          /\ fan.tasks[e].step = "waiting"
          /\ SemaphoreFree(fan.permits)
          /\ fan' = [fan EXCEPT !.tasks[e].step = "extract", !.permits = @ - 1]
    /\ UNCHANGED workflow_vars

\* lines 436-448: the task's pipeline raised; the task returns the stand-in
TaskFails(e) ==
    [fan EXCEPT !.tasks[e].step = "done", !.tasks[e].failed = TRUE,
                !.slots[e] = MinimalResearch(fan.st.events_reviewed[e]),
                !.permits = @ + 1]

\* lines 376-387: extract_entities answers; the task logs to the shared
\* state and awaits generate_queries
ExtractReturns ==
    /\ \E e \in 1..Len(fan.tasks) :
          /\ fan.tasks[e].step = "extract"
          /\ \E o \in ExtractOutcomes :
                IF o.kind = "exception" THEN fan' = TaskFails(e)
                ELSE LET c == add_observation(FanContext, <<"EntityExtractionAgent">>,
                                  <<"Analyzing", fan.st.events_reviewed[e].event.title>>,
                                  Some("extract_entities"),
                                  Some(<<"Found entities", Len(o.value)>>), Rat(9, 10))
                     IN fan' = [fan EXCEPT !.st = c.st, !.clk = c.clk,
                                           !.tasks[e].entities = o.value,
                                           !.tasks[e].step = "queries"]
    /\ UNCHANGED workflow_vars

\* lines 387-400: generate_queries answers; the task logs and awaits the
\* first research query, or synthesize when there is no query
GenerateReturns ==
    /\ \E e \in 1..Len(fan.tasks) :
          /\ fan.tasks[e].step = "queries"
          /\ \E o \in GenerateOutcomes(fan.tasks[e].entities) :
                IF o.kind = "exception" THEN fan' = TaskFails(e)
                ELSE LET c == add_observation(FanContext, <<"QueryGenerationAgent">>,
                                  <<"Formulating research strategy",
                                    Len(fan.tasks[e].entities)>>,
                                  Some("generate_queries"),
                                  Some(<<"Generated queries", Len(o.value)>>),
                                  Rat(95, 100))
                     IN fan' = [fan EXCEPT !.st = c.st, !.clk = c.clk,
                                           !.tasks[e].queries = o.value,
                                           !.tasks[e].step =
                                               IF o.value = <<>> THEN "synthesize"
                                               ELSE "search"]
    /\ UNCHANGED workflow_vars

\* lines 399-413: one research query answers; the task logs it when its
\* confidence is positive and awaits the next query, or synthesize
SearchReturns ==
    /\ \E e \in 1..Len(fan.tasks) :
          /\ fan.tasks[e].step = "search"
          /\ LET query == fan.tasks[e].queries[Len(fan.tasks[e].results) + 1]
             IN \E o \in ResearchOutcomes(query) :
                  IF o.kind = "exception" THEN fan' = TaskFails(e)
                  ELSE LET c == IF RatGT(o.value.confidence, Rat(0, 1))
                                THEN add_observation(FanContext, <<"WebSearchAgent">>,
                                        <<"Researching", query.query>>,
                                        Some("web_search"),
                                        Some(<<"Found facts", Len(o.value.facts)>>),
                                        o.value.confidence)
                                ELSE FanContext
                           results == Append(fan.tasks[e].results, o.value)
                       IN fan' = [fan EXCEPT !.st = c.st, !.clk = c.clk,
                                             !.tasks[e].results = results,
                                             !.tasks[e].step =
                                                 IF Len(results) = Len(fan.tasks[e].queries)
                                                 THEN "synthesize" ELSE "search"]
    /\ UNCHANGED workflow_vars

\* lines 413-427: synthesize answers; the task logs and returns its research
SynthesizeReturns ==
    /\ \E e \in 1..Len(fan.tasks) :
          /\ fan.tasks[e].step = "synthesize"
          /\ \E o \in SynthesizeOutcomes(fan.st.events_reviewed[e].event,
                                         fan.tasks[e].entities, fan.tasks[e].results) :
                IF o.kind = "exception" THEN fan' = TaskFails(e)
                ELSE LET c == add_observation(FanContext, <<"KnowledgeSynthesisAgent">>,
                                  <<"Synthesizing research for",
                                    fan.st.events_reviewed[e].event.title>>,
                                  Some("synthesize_knowledge"),
                                  Some(<<"Created narrative", Len(o.value.key_insights)>>),
                                  o.value.overall_confidence)
                     IN fan' = [fan EXCEPT !.st = c.st, !.clk = c.clk,
                                           !.tasks[e].step = "done",
                                           !.tasks[e].returned = Some(o.value),
                                           !.slots[e] = o.value,
                                           !.permits = @ + 1]
    /\ UNCHANGED workflow_vars

\* lines 457-472, once events_researched is stored: the summary and the move on
ResearchSummary(c, events_researched) ==
    LET avg_confidence ==
            IF events_researched # <<>>
            THEN RatDiv(RatSum([i \in 1..Len(events_researched) |->
                                   events_researched[i].overall_confidence]),
                        Len(events_researched))
            ELSE Rat(0, 1)
        c1 == add_observation(c, <<"PlanningAgent">>,
                              <<"Deep research complete. Rich context gathered.">>,
                              Some("analyze_research_results"),
                              Some(<<"Researched events", Len(events_researched)>>),
                              avg_confidence)
    IN [c1 EXCEPT !.st.phase = SYNTHESIZING]

\* lines 451-472: gather is done; the handler stores the list on the state,
\* summarises and moves on to SYNTHESIZING
ResearchMerges ==
    /\ fan.hpc = "fanout"
    /\ \A e \in 1..Len(fan.tasks) : fan.tasks[e].step = "done"
    /\ LET events_researched == gather(fan.slots, <<>>)
           stored == SetAttr(FanContext, "events_researched", events_researched)
       IN IF stored.exc # None
          THEN fan' = [fan EXCEPT !.hpc = "raised", !.exc = stored.exc]
          ELSE LET c == ResearchSummary(stored.c, events_researched)
               IN fan' = [fan EXCEPT !.st = c.st, !.clk = c.clk, !.hpc = "returned"]
    /\ UNCHANGED workflow_vars

ResearchNext ==
    \/ ResearchSkipped
    \/ ResearchStarts
    \/ ResearchTaskEnters
    \/ ExtractReturns
    \/ GenerateReturns
    \/ SearchReturns
    \/ SynthesizeReturns
    \/ ResearchMerges

ResearchSpec == ResearchInit /\ [][ResearchNext]_vars

\* the handler has come back, by return or by exception
ResearchHandlerDone == fan.hpc \in {"returned", "raised"}

\* the entry the pipeline of event e owes: what it returned, or the stand-in
ExpectedResearch(e) ==
    IF fan.tasks[e].failed
    THEN EventResearch(fan.st.events_reviewed[e].event.title, <<>>, <<>>, <<>>,
                       IF fan.st.events_reviewed[e].event.description # None
                       THEN fan.st.events_reviewed[e].event.description
                       ELSE <<fan.st.events_reviewed[e].event.title>>,
                       <<>>, Rat(1, 2))
    ELSE fan.tasks[e].returned[1]

\* C14: research failure isolation.  Once the research handler, with research
\* configured, has come back, it has not raised (the workflow does not become
\* FAILED), the state carries events_researched with one entry per reviewed
\* event in the same order, the entry of an event whose pipeline raised is
\* the stub (title, empty lists, narrative = description or else title,
\* confidence 0.5) and every other entry is what its pipeline returned.
C14_ResearchFailureIsolation ==
    (fan.configured /\ ResearchHandlerDone) =>
        /\ fan.exc = None
        /\ "events_researched" \in DOMAIN fan.st
        /\ Len(fan.st.events_researched) = Len(fan.st.events_reviewed)
        /\ \A e \in 1..Len(fan.st.events_reviewed) :
              fan.st.events_researched[e] = ExpectedResearch(e)

\* C20: join-then-merge.  While the research fan-out is running (the handler
\* is suspended in gather before and after the step) no step changes the
\* shared PlanningState: tasks write only to their own slot.
C20_NoWriteDuringFanOut ==
    [][(fan.hpc = "fanout" /\ fan'.hpc = "fanout") => fan'.st = fan.st]_vars

IsPrefix(s, t) == Len(s) <= Len(t) /\ SubSeq(t, 1, Len(s)) = s

\* observations lie in the order of their creation
InCreationOrder(pad) ==
    \A i \in 1..Len(pad), j \in 1..Len(pad) :
        i < j => pad[i].timestamp < pad[j].timestamp

\* C15: the scratchpad is append-only over a whole run.  Every step of
\* run_workflow (a handler turn, the except clause, the code after the loop)
\* leaves the scratchpad it found as a prefix of the scratchpad it leaves, so
\* no observation is removed, reordered or modified; and the observations
\* lie in the order in which they were created.
C15_ScratchpadAppendOnly ==
    /\ [](InCreationOrder(state.scratchpad))
    /\ [][IsPrefix(state.scratchpad, state'.scratchpad)]_vars

\* a run that went through the except clause after several handlers logged
C15_Witness ==
    /\ pc = "returned"
    /\ state.phase = FAILED
    /\ raised # None
    /\ Len(state.scratchpad) >= 4

-----------------------------------------------------------------------------
(* Construction of the models that carry a confidence or a priority: the   *)
(* pydantic field declarations decide what a constructor accepts.          *)

\* how far beyond the declared range the sampled values go
MaxOver == 3

RatLE(a, b) == a[1] * b[2] <= b[1] * a[2]

\* a field declaration: Field(ge=lo, le=hi) is checked, a plain annotation
\* with a default is not
CheckedField(name, lo, hi) == [name |-> name, checked |-> TRUE, ge |-> lo, le |-> hi]

PlainField(name) == [name |-> name, checked |-> FALSE, ge |-> Rat(0, 1), le |-> Rat(0, 1)]

\* the confidence or priority field of each model, as declared
RangedField(model) ==
    CASE model = "Observation" -> CheckedField("confidence", Rat(0, 1), Rat(1, 1))
      [] model = "Question" -> CheckedField("priority", Rat(1, 1), Rat(10, 1))
      [] model = "EnrichedEvent" -> CheckedField("confidence_score", Rat(0, 1), Rat(1, 1))
      [] model = "SearchAgentResult" -> CheckedField("confidence", Rat(0, 1), Rat(1, 1))
      [] model = "PromoGenerationResult" -> CheckedField("confidence", Rat(0, 1), Rat(1, 1))
      [] model = "Entity" -> CheckedField("confidence", Rat(0, 1), Rat(1, 1))
      [] model = "ResearchQuery" -> CheckedField("priority", Rat(1, 1), Rat(10, 1))
      [] model = "ResearchResult" -> CheckedField("confidence", Rat(0, 1), Rat(1, 1))
      [] model = "EventResearch" -> PlainField("overall_confidence")

RangedModels == {"Observation", "Question", "EnrichedEvent", "SearchAgentResult",
                 "PromoGenerationResult", "Entity", "ResearchQuery", "ResearchResult",
                 "EventResearch"}

\* the values handed to a constructor: tenths around [0,1], integers around [1,10]
SampleValues(model) ==
    IF RangedField(model).name = "priority"
    THEN {Rat(n, 1) : n \in (1 - MaxOver)..(10 + MaxOver)}
    ELSE {Rat(n, 10) : n \in (0 - MaxOver)..(10 + MaxOver)}

\* BaseModel.__init__ on the field: the object, or a ValidationError
Construct(model, value) ==
    LET f == RangedField(model)
    IN IF f.checked /\ ~(RatLE(f.ge, value) /\ RatLE(value, f.le))
       THEN [kind |-> "exception", message |-> "ValidationError"]
       ELSE [kind |-> "value", value |-> [model |-> model, field |-> f.name, v |-> value]]

ConstructInit ==
    /\ WorkflowIdle
    /\ fan \in {[kind |-> "construct", model |-> m, value |-> v, out |-> None] :
                    m \in RangedModels, v \in UNION {SampleValues(k) : k \in RangedModels}}
    /\ fan.value \in SampleValues(fan.model)

Constructs ==
    /\ fan.out = None
    /\ fan' = [fan EXCEPT !.out = Some(Construct(fan.model, fan.value))]
    /\ UNCHANGED workflow_vars

ConstructNext == Constructs

ConstructSpec == ConstructInit /\ [][ConstructNext]_vars

\* the range the text gives for a field
InClaimedRange(field, v) ==
    IF field = "priority"
    THEN RatLE(Rat(1, 1), v) /\ RatLE(v, Rat(10, 1))
    ELSE RatLE(Rat(0, 1), v) /\ RatLE(v, Rat(1, 1))

\* C16: every confidence is range-checked to [0,1] and every priority to
\* [1,10] at construction, for each of the nine models: a constructor that
\* was handed an out-of-range value rejects it, so every object that exists
\* has its confidence or priority in range.
C16_RangeCheckedAtConstruction ==
    (fan.out # None /\ fan.out[1].kind = "value") =>
        InClaimedRange(fan.out[1].value.field, fan.out[1].value.v)

-----------------------------------------------------------------------------
(* PromoGeneratorAgent.generate_promo (promo_agent.py:49-156).             *)

\* longest list of enriched events handed to generate_promo
MaxPromoEvents == 2

PromoGenerationResult(promo_text, events_included, confidence, metadata) ==
    [promo_text |-> promo_text, events_included |-> events_included,
     confidence |-> confidence, generation_metadata |-> metadata]

\* services.py:5-10 against the sample texts: the keyword lists of which some
\* keyword occurs in the lowered "title description"
KeywordLists(event) ==
    CASE event.description = Some("Jazz Night at the park") -> {"OUTDOOR"}
      [] event.description = Some("bike ride") -> {"CYCLING"}
      [] event.description = Some("kids concert in the park") ->
            {"MUSIC", "OUTDOOR", "KID_FOCUSED"}
      [] OTHER -> {}

\* lines 158-182
_calculate_score(event) ==
    LET hit == KeywordLists(event)
    IN (IF "CYCLING" \in hit THEN 10 ELSE 0)
       + (IF "COUPLE_ACTIVITIES" \in hit THEN 9 ELSE 0)
       + (IF "MUSIC" \in hit THEN 8 ELSE 0)
       + (IF "DOG_FRIENDLY" \in hit THEN 7 ELSE 0)
       + (IF "OUTDOOR" \in hit THEN 5 ELSE 0)
       - (IF "KID_FOCUSED" \in hit THEN 5 ELSE 0)

\* dict.get(key, default)
DictGet(d, key, default) == IF key \in DOMAIN d THEN d[key] ELSE default

\* lines 69-80: one item of events_with_scores
ScoredItem(enriched) ==
    LET score == DictGet(enriched.additional_metadata, "relevance_score", 0)
    IN [event |-> enriched.event,
        score |-> IF score = 0 THEN _calculate_score(enriched.event) ELSE score,
        enriched |-> enriched]

\* number of leading items whose score is at least the given one
RECURSIVE LeadingAtLeast(_, _)
LeadingAtLeast(items, score) ==
    IF items = <<>> \/ Head(items).score < score THEN 0
    ELSE 1 + LeadingAtLeast(Tail(items), score)

\* a sort that leaves the list in input order
SortByScoreDescending_InputOrder(items) == items

RECURSIVE SortByScoreDescending(_)
\* line 83: list.sort(key=score, reverse=True), a stable sort
SortByScoreDescending(items) ==
    IF items = <<>> THEN <<>>
    ELSE LET sorted == SortByScoreDescending(SubSeq(items, 1, Len(items) - 1))
             item == items[Len(items)]
             k == LeadingAtLeast(sorted, item.score)
         IN SubSeq(sorted, 1, k) \o <<item>> \o SubSeq(sorted, k + 1, Len(sorted))

\* the enriched events handed in
PromoEventPool ==
    { EnrichedEvent(EventList[1], TRUE, <<>>, Rat(1, 1), None, FALSE, TRUE, EmptyDict),
      EnrichedEvent(EventList[3], TRUE, <<>>, Rat(9, 10), None, FALSE, TRUE, EmptyDict),
      EnrichedEvent(EventList[2], FALSE, <<>>, Rat(1, 2), None, FALSE, FALSE,
                    [relevance_score |-> 12]),
      EnrichedEvent(Event(<<"b">>, Some("bike ride"), None, None, None, None),
                    TRUE, <<>>, Rat(1, 1), None, FALSE, TRUE, [relevance_score |-> 0]),
      EnrichedEvent(Event(<<"k">>, Some("kids concert in the park"), None, None, None, None),
                    TRUE, <<>>, Rat(1, 1), None, FALSE, TRUE, EmptyDict) }

\* where a fault may strike inside the try block
PromoFaults ==
    {[at |-> a, message |-> m] :
        a \in {"scoring", "research", "rendering", "generating"},
        m \in {"template not found", "rate limited"}}

\* the scoring and the research loops have a body only when there are events
FaultStrikes(fault, events) ==
    /\ fault # None
    /\ fault[1].at \in {"scoring", "research"} => events # <<>>

\* lines 66-156: the whole of generate_promo
generate_promo(events, planning_context, fault) ==
    IF FaultStrikes(fault, events)
    THEN PromoGenerationResult(<<"ERROR: Could not generate promo - ", fault[1].message>>,
                               <<>>, Rat(0, 1), [error |-> fault[1].message])
    ELSE LET events_with_scores ==
                 SortByScoreDescending([i \in 1..Len(events) |-> ScoredItem(events[i])])
         IN PromoGenerationResult(<<"OH YEAH">>,
                [i \in 1..Len(events_with_scores) |-> events_with_scores[i].event.title],
                Rat(95, 100),
                [events_processed |-> Len(events),
                 planning_observations |-> Len(planning_context.scratchpad)])

PromoInit ==
    /\ WorkflowIdle
    /\ fan \in {[kind |-> "promo", events |-> ev, fault |-> f, out |-> None] :
                    ev \in SeqsUpTo(PromoEventPool, MaxPromoEvents),
                    f \in {None} \cup {Some(x) : x \in PromoFaults}}

\* one call of generate_promo, from entry to return
PromoGenerates ==
    /\ fan.out = None
    /\ fan' = [fan EXCEPT !.out =
                  Some(GatherValue(generate_promo(fan.events, state, fan.fault)))]
    /\ UNCHANGED workflow_vars

PromoNext == PromoGenerates

PromoSpec == PromoInit /\ [][PromoNext]_vars

\* the bijections of 1..n
Bijections(n) == {p \in [1..n -> 1..n] : \A i, j \in 1..n : p[i] = p[j] => i = j}

\* the score the text speaks of: the review agents' relevance score, or the
\* keyword score when there is none
ScoreOf(enriched) == ScoredItem(enriched).score

\* C17: generate_promo never raises.  A call that met a fault returns a
\* PromoGenerationResult with explanatory text, confidence 0 and no events
\* included; a call that met none lists the titles of all input events in
\* descending order of score.
C17_PromoNeverRaises ==
    fan.out # None =>
        /\ fan.out[1].kind = "value"
        /\ LET r == fan.out[1].value
               n == Len(fan.events)
           IN IF FaultStrikes(fan.fault, fan.events)
              THEN /\ r.promo_text # <<>> /\ r.promo_text[1] = "ERROR: Could not generate promo - "
                   /\ r.confidence = Rat(0, 1)
                   /\ r.events_included = <<>>
              ELSE /\ Len(r.events_included) = n
                   /\ \E p \in Bijections(n) :
                         /\ \A i \in 1..n : r.events_included[i] = fan.events[p[i]].event.title
                         /\ \A i, j \in 1..n :
                               i < j => ScoreOf(fan.events[p[i]]) >= ScoreOf(fan.events[p[j]])

\* a successful call on two events handed in in ascending score order
C17_Witness ==
    /\ fan.out # None
    /\ fan.fault = None
    /\ Len(fan.events) = 2
    /\ ScoreOf(fan.events[1]) < ScoreOf(fan.events[2])
    /\ fan.out[1].value.events_included[1] = fan.events[2].event.title

-----------------------------------------------------------------------------
(* AgenticEventService.run_daily_event_flow (agentic_event_service.py:     *)
(* 40-146) with the flags run_daily sets (run_daily_job.py:53-59).  The    *)
(* planning agent, the repository and the sender are ports.                *)

\* largest value of the dev_sms_mute setting
MaxMute == 2

\* what planning_agent.run_workflow may hand back: a final state
FinalStates ==
    {[PlanningState(0) EXCEPT !.phase = p, !.promo_generated = promo,
                              !.events_reviewed = ReviewedEvents(n),
                              !.error_message = IF p = FAILED THEN Some("boom") ELSE None] :
        p \in {COMPLETE, FAILED}, promo \in {None, Some(""), Some("OH YEAH")}, n \in 0..1}

\* Python truthiness of an Optional[str]
Truthy(opt) == opt # None /\ opt[1] # ""

\* a condition that stores the events whenever there are any
SavesEvents_IgnoresNoDb(dry_run, no_db, events_to_save) == ~dry_run /\ events_to_save # <<>>

\* lines 91-96: the branch that calls repository.save_events
SavesEvents(dry_run, no_db, events_to_save) == ~dry_run /\ ~no_db /\ events_to_save # <<>>

\* lines 100-104: the branch that calls sms.send_sms
SendsSms(dry_run, dev_sms_mute) == ~dry_run /\ dev_sms_mute = 0

\* a flow that goes on to deliver whenever the run did not fail
ReturnsEarly_OnlyOnFailure(final) == final.phase = FAILED

\* lines 67-75: the flow returns an error text instead of delivering
ReturnsEarly(final) == final.phase = FAILED \/ ~Truthy(final.promo_generated)

\* line 81
EventsToSave(final) == [i \in 1..Len(final.events_reviewed) |-> final.events_reviewed[i].event]

DeliveryInit ==
    /\ WorkflowIdle
    /\ fan \in {[kind |-> "delivery", dry_run |-> d, no_db |-> n, dev_sms_mute |-> m,
                 enable_research |-> r, flow |-> "start", final |-> None,
                 save_calls |-> 0, sms_calls |-> 0, calls |-> <<>>, result |-> None] :
                    d \in BOOLEAN, n \in BOOLEAN, m \in 0..MaxMute, r \in BOOLEAN}

\* lines 57-88: the workflow runs; a failed run or a run without promo
\* returns the error text at once
FlowRunsWorkflow ==
    /\ fan.flow = "start"
    /\ \E final \in FinalStates :
          fan' = [fan EXCEPT
                    !.final = Some(final),
                    !.flow = IF ReturnsEarly(final) THEN "returned" ELSE "save",
                    !.result = IF final.phase = FAILED
                               THEN Some(<<"Workflow failed: ", final.error_message>>)
                               ELSE IF ~Truthy(final.promo_generated)
                               THEN Some(<<"No promo was generated">>)
                               ELSE None]
    /\ UNCHANGED workflow_vars

\* lines 90-97: the save step; the repository may fail
FlowSaves ==
    /\ fan.flow = "save"
    /\ LET events_to_save == EventsToSave(fan.final[1])
       IN IF SavesEvents(fan.dry_run, fan.no_db, events_to_save)
          THEN \E ok \in BOOLEAN :
                  fan' = [fan EXCEPT !.save_calls = @ + 1,
                                     !.calls = Append(@, [op |-> "save_events",
                                                          events |-> events_to_save]),
                                     !.flow = IF ok THEN "send" ELSE "raised"]
          ELSE fan' = [fan EXCEPT !.flow = "send"]
    /\ UNCHANGED workflow_vars

\* lines 99-113: the send step; the sender may fail
FlowSends ==
    /\ fan.flow = "send"
    /\ IF SendsSms(fan.dry_run, fan.dev_sms_mute)
       THEN \E ok \in BOOLEAN :
               fan' = [fan EXCEPT !.sms_calls = @ + 1,
                                  !.calls = Append(@, [op |-> "send_sms",
                                                       events |-> EventsToSave(fan.final[1])]),
                                  !.flow = IF ok THEN "summary" ELSE "raised"]
       ELSE fan' = [fan EXCEPT !.flow = "summary"]
    /\ UNCHANGED workflow_vars

\* lines 115-146: the summary; with research enabled line 133 reads
\* events_researched, which the state does not have
FlowSummarises ==
    /\ fan.flow = "summary"
    /\ IF fan.enable_research /\ "events_researched" \notin DOMAIN fan.final[1]
       THEN fan' = [fan EXCEPT !.flow = "raised"]
       ELSE fan' = [fan EXCEPT !.flow = "returned",
                               !.result = Some(<<fan.final[1].promo_generated,
                                                 "listing", "scratchpad">>)]
    /\ UNCHANGED workflow_vars

DeliveryNext ==
    \/ FlowRunsWorkflow
    \/ FlowSaves
    \/ FlowSends
    \/ FlowSummarises

DeliverySpec == DeliveryInit /\ [][DeliveryNext]_vars

\* the flow is over, by return or by exception
FlowOver == fan.flow \in {"returned", "raised"}

\* the workflow came back with a promo to deliver
PromoProduced ==
    fan.final # None /\ fan.final[1].phase # FAILED /\ Truthy(fan.final[1].promo_generated)

\* C18: delivery modes.  With dry_run neither save_events nor send_sms is
\* called; with no_db and without dry_run save_events is not called, and
\* send_sms has been called exactly once by the end of a flow whose workflow
\* produced a promo while dev_sms_mute is 0; with dev_sms_mute non-zero
\* send_sms is not called.
C18_DeliveryModes ==
    /\ fan.dry_run => (fan.save_calls = 0 /\ fan.sms_calls = 0)
    /\ (fan.no_db /\ ~fan.dry_run) =>
          /\ fan.save_calls = 0
          /\ (FlowOver /\ PromoProduced /\ fan.dev_sms_mute = 0) => fan.sms_calls = 1
    /\ fan.dev_sms_mute # 0 => fan.sms_calls = 0

\* a no_db flow with reviewed events that sent its message and saved nothing
C18_Witness ==
    /\ fan.no_db /\ ~fan.dry_run
    /\ FlowOver
    /\ PromoProduced
    /\ fan.final[1].events_reviewed # <<>>
    /\ fan.sms_calls = 1
    /\ fan.save_calls = 0

-----------------------------------------------------------------------------
(* QueryGenerationAgent.generate_queries (query_generation_agent.py:       *)
(* 87-199).                                                                *)

\* longest "queries" list in a model response, and longest entity list
MaxResponseQueries == 4

\* the entries a response may carry under "queries": a priority given, left
\* out, out of range, or an entry without its "query" key
ResponseEntries ==
    {[query |-> Some("tour dates"), priority |-> Some(10)],
     [query |-> Some("venue history"), priority |-> Some(7)],
     [query |-> Some("awards"), priority |-> None],
     [query |-> Some("gossip"), priority |-> Some(11)],
     [query |-> None, priority |-> Some(9)]}

\* what agent.run gives: an exception, text without JSON, broken JSON, or
\* JSON (with or without a "queries" key)
ModelResponses ==
    {[kind |-> k, queries |-> <<>>] : k \in {"raises", "no_json", "bad_json", "no_queries_key"}}
    \cup {[kind |-> "json", queries |-> q] : q \in SeqsUpTo(ResponseEntries, MaxResponseQueries)}

EntityList(n) == [i \in 1..n |-> Entity(<<"artist", i>>, "artist", Rat(9, 10))]

\* lines 159-169: one entry becomes a ResearchQuery, or is skipped when the
\* key is missing or the priority is refused
ParsedEntry(q) ==
    LET priority == IF q.priority = None THEN 5 ELSE q.priority[1]
    IN IF q.query = None \/ priority < 1 \/ priority > 10
       THEN <<>>
       ELSE <<ResearchQuery(q.query[1], priority, Some(""), "contextual")>>

RECURSIVE ParsedEntries(_)
\* lines 157-169
ParsedEntries(entries) ==
    IF entries = <<>> THEN <<>>
    ELSE ParsedEntry(Head(entries)) \o ParsedEntries(Tail(entries))

\* number of leading queries whose priority is at least the given one
RECURSIVE LeadingPriorityAtLeast(_, _)
LeadingPriorityAtLeast(queries, priority) ==
    IF queries = <<>> \/ Head(queries).priority < priority THEN 0
    ELSE 1 + LeadingPriorityAtLeast(Tail(queries), priority)

RECURSIVE SortByPriorityDescending(_)
\* line 172: queries.sort(key=priority, reverse=True), a stable sort
SortByPriorityDescending(queries) ==
    IF queries = <<>> THEN <<>>
    ELSE LET sorted == SortByPriorityDescending(SubSeq(queries, 1, Len(queries) - 1))
             q == queries[Len(queries)]
             k == LeadingPriorityAtLeast(sorted, q.priority)
         IN SubSeq(sorted, 1, k) \o <<q>> \o SubSeq(sorted, k + 1, Len(sorted))

\* lines 185-199: enumerate(entities[:3])
_generate_fallback_queries(event, entities) ==
    [i \in 1..(IF Len(entities) < 3 THEN Len(entities) ELSE 3) |->
        ResearchQuery(<<entities[i].name, " information">>, 10 - (i - 1),
                      Some(entities[i].name), "biographical")]

\* lines 94-183
generate_queries(event, entities, response) ==
    IF entities = <<>> THEN <<>>
    ELSE IF response.kind \in {"raises", "no_json", "bad_json"}
    THEN _generate_fallback_queries(event, entities)
    ELSE SortByPriorityDescending(ParsedEntries(response.queries))

QueryInit ==
    /\ WorkflowIdle
    /\ fan \in {[kind |-> "queries", event |-> EventList[1], entities |-> EntityList(n),
                 response |-> r, out |-> None] :
                    n \in 0..MaxResponseQueries, r \in ModelResponses}

\* one call of generate_queries, from entry to return
QueriesGenerated ==
    /\ fan.out = None
    /\ fan' = [fan EXCEPT !.out = Some(generate_queries(fan.event, fan.entities, fan.response))]
    /\ UNCHANGED workflow_vars

QueryNext == QueriesGenerated

QuerySpec == QueryInit /\ [][QueryNext]_vars

\* C19: generate_queries returns at most 3 queries, in order of
\* non-increasing priority, each priority within 1..10, whatever the
\* response was: parsed, failed or unparseable, or no entities at all.
C19_AtMostThreeByPriority ==
    fan.out # None =>
        LET queries == fan.out[1]
        IN /\ Len(queries) <= 3
           /\ \A i \in 1..Len(queries) : queries[i].priority \in 1..10
           /\ \A i, j \in 1..Len(queries) :
                 i < j => queries[i].priority >= queries[j].priority

-----------------------------------------------------------------------------
(* The scheduling of the research pipelines (planning_agent.py:371-453)    *)
(* for more events than the semaphore admits.  Only the position of each   *)
(* task is followed here; what the tasks write is in ResearchSpec.         *)

\* largest number of reviewed events in the pool
MaxPoolEvents == 6

\* the entities extract_entities gives for an event of the pool
PoolEntities == <<Entity("artist", "artist", Rat(9, 10)), Entity("venue", "venue", Rat(8, 10))>>

\* line 387: one query per entity
PoolQueries == GatherValue([i \in 1..Len(PoolEntities) |->
                   ResearchQuery(<<"who is", PoolEntities[i].name>>, 9,
                                 Some(PoolEntities[i].name), "biographical")]).value

\* a task before it runs: where it is, how many queries were answered,
\* whether its pipeline raised
PoolTask == [step |-> "waiting", answered |-> 0, failed |-> FALSE]

PoolInit ==
    /\ WorkflowIdle
    /\ fan \in {[kind |-> "pool", permits |-> research_concurrency,
                 tasks |-> [e \in 1..n |-> PoolTask]] : n \in 0..MaxPoolEvents}

\* lines 436-448 in the pool: the pipeline raised, its locals are gone and
\* the task is over
PoolTaskFails(e) ==
    [fan EXCEPT !.tasks[e] = [step |-> "done", answered |-> 0, failed |-> TRUE],
                !.permits = @ + 1]

\* lines 433-435, 376: a task enters the semaphore and awaits extract_entities
PoolTaskEnters ==
    /\ \E e \in 1..Len(fan.tasks) :
          /\ fan.tasks[e].step = "waiting"
          /\ SemaphoreFree(fan.permits)
          /\ fan' = [fan EXCEPT !.tasks[e].step = "extract", !.permits = @ - 1]
    /\ UNCHANGED workflow_vars

\* line 376: extract_entities answers or raises
PoolExtractReturns ==
    /\ \E e \in 1..Len(fan.tasks), ok \in BOOLEAN :
          /\ fan.tasks[e].step = "extract"
          /\ fan' = IF ok THEN [fan EXCEPT !.tasks[e].step = "queries"]
                    ELSE PoolTaskFails(e)
    /\ UNCHANGED workflow_vars

\* line 387: generate_queries answers or raises
PoolGenerateReturns ==
    /\ \E e \in 1..Len(fan.tasks), ok \in BOOLEAN :
          /\ fan.tasks[e].step = "queries"
          /\ fan' = IF ok
                    THEN [fan EXCEPT !.tasks[e].step =
                             IF PoolQueries = <<>> THEN "synthesize" ELSE "search"]
                    ELSE PoolTaskFails(e)
    /\ UNCHANGED workflow_vars

\* lines 400-403: the query awaited answers or raises; the loop goes on to
\* the next query or leaves for synthesize
PoolSearchReturns ==
    /\ \E e \in 1..Len(fan.tasks), ok \in BOOLEAN :
          /\ fan.tasks[e].step = "search"
          /\ fan' = IF ok
                    THEN [fan EXCEPT !.tasks[e].answered = @ + 1,
                                     !.tasks[e].step =
                                         IF fan.tasks[e].answered + 1 = Len(PoolQueries)
                                         THEN "synthesize" ELSE "search"]
                    ELSE PoolTaskFails(e)
    /\ UNCHANGED workflow_vars

\* lines 413-427: synthesize answers or raises; the task returns
PoolSynthesizeReturns ==
    /\ \E e \in 1..Len(fan.tasks), ok \in BOOLEAN :
          /\ fan.tasks[e].step = "synthesize"
          /\ fan' = IF ok
                    THEN [fan EXCEPT !.tasks[e] = [step |-> "done", answered |-> 0,
                                                   failed |-> FALSE],
                                     !.permits = @ + 1]
                    ELSE PoolTaskFails(e)
    /\ UNCHANGED workflow_vars

PoolNext ==
    \/ PoolTaskEnters
    \/ PoolExtractReturns
    \/ PoolGenerateReturns
    \/ PoolSearchReturns
    \/ PoolSynthesizeReturns

PoolSpec == PoolInit /\ [][PoolNext]_vars

\* the events whose pipeline is in progress
InProgress == {e \in 1..Len(fan.tasks) : fan.tasks[e].step \notin {"waiting", "done"}}

\* how far a pipeline has come: 0 waiting, 1 extraction, 2 query generation,
\* 3 + k the research query after k answers, then synthesis, then over
StepRank(task) ==
    CASE task.step = "waiting" -> 0
      [] task.step = "extract" -> 1
      [] task.step = "queries" -> 2
      [] task.step = "search" -> 3 + task.answered
      [] task.step = "synthesize" -> 3 + Len(PoolQueries)
      [] OTHER -> 4 + Len(PoolQueries)

\* C21: research concurrency bound.  At most 5 events have a research
\* pipeline in progress at any time, however many events were reviewed, and
\* inside one event every step taken leads to the next step in order --
\* extraction, query generation, the queries one after another, synthesis --
\* or, when the pipeline raised, to its end.
C21_ResearchConcurrencyBound ==
    /\ [](Cardinality(InProgress) <= 5)
    /\ [][\A e \in 1..Len(fan.tasks) :
            \/ fan'.tasks[e] = fan.tasks[e]
            \/ StepRank(fan'.tasks[e]) = StepRank(fan.tasks[e]) + 1
            \/ (fan'.tasks[e].failed /\ fan'.tasks[e].step = "done"
                /\ fan.tasks[e].step \notin {"waiting", "done"})]_vars

\* five pipelines in progress, one of them at its second query, one event waiting
C21_Witness ==
    /\ Cardinality(InProgress) = 5
    /\ \E e \in 1..Len(fan.tasks) : fan.tasks[e].step = "waiting"
    /\ \E e \in 1..Len(fan.tasks) : fan.tasks[e].step = "search" /\ fan.tasks[e].answered = 1

\* C22: the research handler always moves on to SYNTHESIZING.  Without a
\* research pipeline it calls no collaborator, leaves events_researched as
\* it was and sets the phase; with one, it returns with the phase at
\* SYNTHESIZING however many pipelines failed.
C22_ResearchAlwaysToSynthesizing ==
    (fan.hpc \in {"returned", "raised"}) =>
        /\ fan.hpc = "returned"
        /\ fan.st.phase = SYNTHESIZING
        /\ ~fan.configured =>
              /\ \A e \in 1..Len(fan.tasks) : fan.tasks[e] = NewTask
              /\ "events_researched" \notin DOMAIN fan.st

-----------------------------------------------------------------------------
\* some event of the list has nothing under the field
SomeEventLacks(events, field) == \E i \in 1..Len(events) : events[i][field] = None

\* the priorities the gap analysis owes for a list of events
GapPriorities(events) ==
    (IF SomeEventLacks(events, "start_time") THEN <<8>> ELSE <<>>)
    \o (IF SomeEventLacks(events, "url") THEN <<5>> ELSE <<>>)
    \o (IF SomeEventLacks(events, "location") THEN <<7>> ELSE <<>>)

\* the search handler has run and the review handler has not
SearchedNotReviewed ==
    /\ "_search_phase" \in handlers_entered
    /\ "_review_phase" \notin handlers_entered

\* C23: gap analysis.  The questions the search handler adds are a function
\* of events_found: one of priority 8 iff some event has no start time, one
\* of priority 5 iff some event has no URL, one of priority 7 iff some event
\* has no location -- at most three, none for an empty list, never one per
\* offending event -- and all of them unanswered.
C23_GapAnalysisQuestions ==
    SearchedNotReviewed =>
        /\ Len(state.questions_to_investigate) = Len(GapPriorities(state.events_found))
        /\ \A i \in 1..Len(state.questions_to_investigate) :
              /\ state.questions_to_investigate[i].priority = GapPriorities(state.events_found)[i]
              /\ ~state.questions_to_investigate[i].answered
              /\ state.questions_to_investigate[i].answer = None
        /\ state.events_found = <<>> => state.questions_to_investigate = <<>>

\* two events found, both without URL, and a single question about URLs
C23_Witness ==
    /\ SearchedNotReviewed
    /\ Len(state.events_found) = 2
    /\ \A i \in 1..2 : state.events_found[i].url = None
    /\ Len(SelectSeq(state.questions_to_investigate, LAMBDA q : q.priority = 5)) = 1

\* the step is a turn of the review handler
ReviewHandlerRan ==
    "_review_phase" \notin handlers_entered /\ "_review_phase" \in handlers_entered'

\* C24: question resolution.  No step removes a question, reverts one to
\* unanswered or touches one that is answered.  The review handler answers
\* every open question, with a non-empty answer, when the mean confidence of
\* the reviewed events is above 0.7, and changes no question when it is 0.7
\* or less.
C24_QuestionResolution ==
    [][LET before == state.questions_to_investigate
           after == state'.questions_to_investigate
           mean == MeanConfidence(state'.events_reviewed)
       IN /\ Len(before) <= Len(after)
          /\ \A i \in 1..Len(before) :
                /\ before[i].answered => after[i] = before[i]
                /\ after[i].text = before[i].text /\ after[i].priority = before[i].priority
          /\ ReviewHandlerRan =>
                /\ Len(after) = Len(before)
                /\ IF RatGT(mean, Rat(7, 10))
                   THEN \A i \in 1..Len(after) :
                           after[i].answered /\ after[i].answer # None
                                             /\ after[i].answer[1] # <<>>
                   ELSE after = before
          /\ ~ReviewHandlerRan =>
                \A i \in 1..Len(before) : after[i] = before[i]]_vars

\* the review handler has answered an open question
C24_Witness ==
    /\ "_review_phase" \in handlers_entered
    /\ state.questions_to_investigate # <<>>
    /\ \A i \in 1..Len(state.questions_to_investigate) :
          state.questions_to_investigate[i].answered
    /\ RatGT(MeanConfidence(state.events_reviewed), Rat(7, 10))

-----------------------------------------------------------------------------
(* KnowledgeSynthesisAgent.synthesize and _extract_key_insights            *)
(* (knowledge_synthesis_agent.py:53-184).  A fact is a text, held as its   *)
(* leading word, a number that tells texts apart, and its length.          *)

\* longest list of research results handed to synthesize
MaxSynthResults == 2

\* line 70: [:15]
unique_facts_limit == 15

\* lines 173 and 184: at most five insights
insights_limit == 5

\* line 177: entity contexts are added while there are fewer than three
insights_floor == 3

\* line 171: fact[:150]
insight_chars == 150

Fact(word, n, chars) == [word |-> word, n |-> n, chars |-> chars]

\* lines 161-165
priority_keywords ==
    {"grammy", "award", "legendary", "iconic", "historic", "first", "founded",
     "pioneered", "revolution", "collaborated", "million", "famous", "renowned",
     "celebrated"}

\* line 169: some keyword occurs in the lowered fact
HasPriorityKeyword(fact) == fact.word \in priority_keywords

\* text[:n]
Truncated(fact, n) == [fact EXCEPT !.chars = IF @ > n THEN n ELSE @]

\* the fact lists a research result may carry
FactLists ==
    {<<>>,
     <<Fact("doors", 1, 20)>>,
     <<Fact("grammy", 1, 180), Fact("doors", 1, 20)>>,
     <<Fact("doors", 1, 20), Fact("legendary", 1, 40), Fact("doors", 1, 20)>>,
     [i \in 1..(unique_facts_limit + 1) |-> Fact("parking", i, 30)],
     [i \in 1..(insights_limit + 1) |-> Fact("award", i, 60)]}

SynthResults ==
    {ResearchResult("web_search", <<"q">>, <<"https://s">>, f, Rat(8, 10)) : f \in FactLists}

\* an entity with its metadata
EntityWithMetadata(name, metadata) ==
    [name |-> name, type |-> "artist", confidence |-> Rat(9, 10), metadata |-> metadata]

\* the entity lists handed in: entities with and without a context
SynthEntityLists ==
    {<<>>,
     <<EntityWithMetadata("a", EmptyDict)>>,
     <<EntityWithMetadata("a", [context |-> "headliner"])>>,
     <<EntityWithMetadata("a", EmptyDict), EntityWithMetadata("b", [context |-> "opener"]),
       EntityWithMetadata("c", [context |-> "venue"])>>,
     [i \in 1..4 |-> EntityWithMetadata(<<"e", i>>, [context |-> "member"])]}

RECURSIVE Concat(_)
\* lines 65-67: list.extend over the results
Concat(lists) == IF lists = <<>> THEN <<>> ELSE Head(lists) \o Concat(Tail(lists))

RECURSIVE FromKeys(_, _)
\* line 70: list(dict.fromkeys(facts)) keeps the first of equal keys
FromKeys(facts, seen) ==
    IF facts = <<>> THEN seen
    ELSE FromKeys(Tail(facts),
                  IF \E i \in 1..Len(seen) : seen[i] = Head(facts)
                  THEN seen ELSE Append(seen, Head(facts)))

\* s[:n]
Take(s, n) == SubSeq(s, 1, IF Len(s) < n THEN Len(s) ELSE n)

\* lines 62-70
UniqueFacts(research_results) ==
    Take(FromKeys(Concat([i \in 1..Len(research_results) |-> research_results[i].facts]),
                  <<>>),
         unique_facts_limit)

RECURSIVE KeywordInsights(_, _)
\* lines 167-174: matching facts, cut to 150 characters, until there are five
KeywordInsights(facts, insights) ==
    IF facts = <<>> THEN insights
    ELSE IF HasPriorityKeyword(Head(facts))
    THEN LET more == Append(insights, Truncated(Head(facts), insight_chars))
         IN IF Len(more) >= insights_limit THEN more
            ELSE KeywordInsights(Tail(facts), more)
    ELSE KeywordInsights(Tail(facts), insights)

RECURSIVE ContextInsights(_, _)
\* lines 178-182: entity contexts until there are three
ContextInsights(entities, insights) ==
    IF entities = <<>> THEN insights
    ELSE IF "context" \in DOMAIN Head(entities).metadata
    THEN LET more == Append(insights, [entity |-> Head(entities).name,
                                       context |-> Head(entities).metadata["context"]])
         IN IF Len(more) >= insights_floor THEN more
            ELSE ContextInsights(Tail(entities), more)
    ELSE ContextInsights(Tail(entities), insights)

\* lines 156-184
_extract_key_insights(facts, entities) ==
    LET insights == KeywordInsights(facts, <<>>)
    IN Take(IF Len(insights) < insights_floor
            THEN ContextInsights(entities, insights)
            ELSE insights,
            insights_limit)

RatMin(a, b) == IF RatLE(a, b) THEN a ELSE b

\* lines 61-154; agent_ok tells whether agent.run answered
synthesize(event, entities, research_results, agent_ok) ==
    LET unique_facts == UniqueFacts(research_results)
    IN IF unique_facts = <<>>
       THEN EventResearch(event.title, entities, <<>>, research_results,
                          <<event.title, " at ", event.location, ". ", event.description>>,
                          <<"Check event details for more information">>, Rat(1, 2))
       ELSE IF agent_ok
       THEN EventResearch(event.title, entities,
                          [i \in 1..Len(research_results) |-> research_results[i].query],
                          research_results, <<"narrative">>,
                          _extract_key_insights(unique_facts, entities),
                          RatMin(Rat(95, 100),
                                 RatAdd(RatDiv(RatSum([i \in 1..Len(research_results) |->
                                                          research_results[i].confidence]),
                                               Len(research_results)),
                                        Rat(1, 10))))
       ELSE EventResearch(event.title, entities, <<>>, research_results,
                          <<event.title, ". ", Take(unique_facts, 3)>>,
                          _extract_key_insights(unique_facts, entities), Rat(6, 10))

SynthInit ==
    /\ WorkflowIdle
    /\ fan \in {[kind |-> "synthesize", event |-> EventList[1], entities |-> en,
                 research_results |-> rr, agent_ok |-> ok, out |-> None] :
                    en \in SynthEntityLists,
                    rr \in SeqsUpTo(SynthResults, MaxSynthResults),
                    ok \in BOOLEAN}

\* one call of synthesize, from entry to return
Synthesizes ==
    /\ fan.out = None
    /\ fan' = [fan EXCEPT !.out = Some(synthesize(fan.event, fan.entities,
                                                   fan.research_results, fan.agent_ok))]
    /\ UNCHANGED workflow_vars

SynthNext == Synthesizes

SynthSpec == SynthInit /\ [][SynthNext]_vars

\* the facts of the results, in result order
AllFacts == Concat([i \in 1..Len(fan.research_results) |-> fan.research_results[i].facts])

\* positions of the facts that did not occur earlier
FirstPositions == {i \in 1..Len(AllFacts) : \A j \in 1..(i - 1) : AllFacts[j] # AllFacts[i]}

\* the facts the text lets synthesize use: first occurrences, the leading 15
FactsUsed ==
    LET firsts == SelectSeq([i \in 1..Len(AllFacts) |-> [at |-> i, fact |-> AllFacts[i]]],
                            LAMBDA x : x.at \in FirstPositions)
    IN [i \in 1..(IF Len(firsts) < 15 THEN Len(firsts) ELSE 15) |-> firsts[i].fact]

\* the facts among those used that carry a keyword, in fact order
MatchingFacts == SelectSeq(FactsUsed, HasPriorityKeyword)

\* C25: knowledge synthesis.  The results' facts are used in result order,
\* without exact duplicates (first occurrence kept), the leading 15 only;
\* the key_insights returned have between 3 and 5 entries, the facts that
\* carry a keyword first and in fact order, at most five of them, followed
\* by entity contexts when fewer than three facts match.
C25_SynthesisInsights ==
    fan.out # None =>
        LET insights == fan.out[1].key_insights
            matching == Len(MatchingFacts)
            shown == IF matching < 5 THEN matching ELSE 5
        IN /\ Len(insights) >= 3
           /\ Len(insights) <= 5
           /\ shown <= Len(insights)
           /\ \A i \in 1..shown : insights[i] = Truncated(MatchingFacts[i], 150)
           /\ \A i \in (shown + 1)..Len(insights) : "context" \in DOMAIN insights[i]

\* the step is a loop turn whose handler returned normally
HandlerReturned == handler_calls' = handler_calls + 1 /\ raised' = None

\* C26: every loop turn in which a handler is invoked and returns normally
\* leaves the scratchpad longer than it found it, so the scratchpad holds at
\* least as many observations as handlers have run.
C26_EveryHandlerLogs ==
    /\ [][HandlerReturned => Len(state'.scratchpad) > Len(state.scratchpad)]_vars
    /\ [](Len(state.scratchpad) >= handler_calls)

\* three handlers have run and returned
C26_Witness ==
    /\ handler_calls = 3
    /\ raised = None
    /\ pc = "loop"
    /\ Len(state.scratchpad) >= 3

\* the cap observation of line 161 is on the scratchpad
CapObservationLogged ==
    \E i \in 1..Len(state.scratchpad) :
        state.scratchpad[i].thought = <<"Max iterations reached, completing workflow">>

\* C27: with the real handlers every handler that returns leaves the state
\* in a strictly later phase than the one it was dispatched for; so a run
\* invokes at most 5 handlers, none of them twice, and never reaches the
\* cap of 10 turns: the cap observation is never appended.
C27_HandlersAdvanceNoCap ==
    /\ [][HandlerReturned => PhaseRank(state'.phase) > PhaseRank(state.phase)]_vars
    /\ [](/\ handler_calls <= 5
          /\ handler_calls = Cardinality(handlers_entered)
          /\ iteration < max_iterations
          /\ ~CapObservationLogged)

\* a run that came back after its handlers had each run once
C27_Witness ==
    /\ pc = "returned"
    /\ handlers_entered = {"_initialize_phase", "_search_phase", "_review_phase"}
    /\ handler_calls = 3

\* C28: terminal bookkeeping.  In every state of a run completed_at is set
\* exactly when the phase is COMPLETE or FAILED, and error_message is set
\* exactly when the phase is FAILED; a state returned in COMPLETE carries no
\* error_message.
C28_TerminalBookkeeping ==
    /\ (state.completed_at # None) <=> (state.phase \in {COMPLETE, FAILED})
    /\ (state.error_message # None) <=> (state.phase = FAILED)
    /\ (pc = "returned" /\ state.phase = COMPLETE) => state.error_message = None

\* a run returned in COMPLETE with its completion time
C28_Witness ==
    /\ pc = "returned"
    /\ state.phase = COMPLETE
    /\ state.completed_at # None
    /\ state.error_message = None

-----------------------------------------------------------------------------
(* review_event_with_all_agents (review_agents.py:431-486) for one event,  *)
(* with what each agent answers fixed beforehand and the agents finishing  *)
(* in any order.                                                           *)

OrderInit ==
    /\ WorkflowIdle
    /\ fan \in {[kind |-> "order", event |-> EventList[1], results |-> g,
                 slots |-> [i \in 1..Len(g) |-> Pending], order |-> <<>>, out |-> None] :
                    g \in SwarmGathers(EventList[1])}

\* lines 435-438: one agent's review_event finishes
OrderAgentCompletes ==
    /\ fan.out = None
    /\ \E i \in 1..Len(fan.slots) :
          /\ fan.slots[i] = Pending
          /\ fan' = [fan EXCEPT !.slots[i] = fan.results[i], !.order = Append(@, i)]
    /\ UNCHANGED workflow_vars

\* lines 435-486: gather returns and the results are aggregated
OrderAggregates ==
    /\ fan.out = None
    /\ \A i \in 1..Len(fan.slots) : fan.slots[i] # Pending
    /\ fan' = [fan EXCEPT !.out =
                  Some(review_event_with_all_agents(fan.event, gather(fan.slots, fan.order)))]
    /\ UNCHANGED workflow_vars

OrderNext ==
    \/ OrderAgentCompletes
    \/ OrderAggregates

OrderSpec == OrderInit /\ [][OrderNext]_vars

\* positions in the agents list of the agents that answered with success
SuccessfulAgents ==
    {i \in 1..Len(fan.results) : fan.results[i].kind = "value" /\ fan.results[i].value.success}

\* the enriched event agent i answered with
AnsweredBy(i) == fan.results[i].value.enriched_event

\* the last of a set of positions, 0 if there is none
LastOf(positions) ==
    IF positions = {} THEN 0 ELSE CHOOSE i \in positions : \A j \in positions : j <= i

\* C29: review aggregation is independent of scheduling.  Whatever the
\* order in which the agents finished, the aggregate is determined by their
\* answers taken in the order of the agents list: the notes of the
\* successful answers concatenated, each metadata key with the value of the
\* last successful answer that has it, the description of the last
\* successful answer that has one, and url_working / venue_verified true
\* iff some successful answer asserts them.
C29_AggregationOrderIndependent ==
    fan.out # None =>
        LET out == fan.out[1]
            successful == SuccessfulEnriched(fan.results)
            keys == UNION {DOMAIN AnsweredBy(i).additional_metadata : i \in SuccessfulAgents}
            describer == LastOf({i \in SuccessfulAgents :
                                    AnsweredBy(i).enriched_description # None})
        IN /\ out.verification_notes =
                 Concat([i \in 1..Len(successful) |-> successful[i].verification_notes])
           /\ DOMAIN out.additional_metadata = keys
           /\ \A k \in keys :
                 out.additional_metadata[k] =
                    AnsweredBy(LastOf({i \in SuccessfulAgents :
                                          k \in DOMAIN AnsweredBy(i).additional_metadata})
                              ).additional_metadata[k]
           /\ out.enriched_description =
                 IF describer = 0 THEN None ELSE AnsweredBy(describer).enriched_description
           /\ out.url_working <=> \E i \in SuccessfulAgents : AnsweredBy(i).url_working
           /\ out.venue_verified <=> \E i \in SuccessfulAgents : AnsweredBy(i).venue_verified

\* the last agent of the list finished first, and two successful answers
\* with different notes and descriptions were merged
C29_Witness ==
    /\ fan.out # None
    /\ Len(fan.order) >= 2
    /\ fan.order[1] = Len(fan.order)
    /\ Cardinality(SuccessfulAgents) >= 2
    /\ \E i, j \in SuccessfulAgents :
          /\ i < j
          /\ AnsweredBy(i).verification_notes # AnsweredBy(j).verification_notes
          /\ AnsweredBy(i).enriched_description # None
          /\ AnsweredBy(j).enriched_description # None
          /\ AnsweredBy(i).enriched_description # AnsweredBy(j).enriched_description

-----------------------------------------------------------------------------
\* the texts the flow returns instead of a message
ErrorTexts ==
    {<<"Workflow failed: ", m>> : m \in {None, Some("boom")}} \cup {<<"No promo was generated">>}

\* the run failed or left no promo text
RunUnsuccessful ==
    fan.final # None
    /\ (fan.final[1].phase = FAILED \/ fan.final[1].promo_generated \in {None, Some("")})

\* C30: the flow saves and sends only for a successful run.  After a run
\* that ended FAILED or without promo text neither save_events nor send_sms
\* is called and the flow returns an error text; after any other run
\* save_events, when it applies, is called before send_sms, and both are
\* handed exactly the events of events_reviewed, in order.
C30_DeliverOnlyOnSuccess ==
    /\ RunUnsuccessful =>
          /\ fan.calls = <<>>
          /\ fan.flow = "returned"
          /\ fan.result # None /\ fan.result[1] \in ErrorTexts
    /\ (fan.final # None /\ ~RunUnsuccessful) =>
          /\ \A i \in 1..Len(fan.calls) :
                fan.calls[i].events =
                    [k \in 1..Len(fan.final[1].events_reviewed) |->
                        fan.final[1].events_reviewed[k].event]
          /\ \A i, j \in 1..Len(fan.calls) :
                (fan.calls[i].op = "save_events" /\ fan.calls[j].op = "send_sms") => i < j
          /\ (\E j \in 1..Len(fan.calls) : fan.calls[j].op = "send_sms"
              /\ ~fan.dry_run /\ ~fan.no_db /\ fan.final[1].events_reviewed # <<>>)
                => fan.calls[1].op = "save_events"

\* a successful run whose events were saved and then sent
C30_Witness ==
    /\ fan.final # None
    /\ ~RunUnsuccessful
    /\ Len(fan.calls) = 2
    /\ fan.calls[1].op = "save_events"
    /\ fan.calls[2].op = "send_sms"
    /\ fan.calls[1].events # <<>>

====
